---------------------------- MODULE Spec2Model ----------------------------
(***************************************************************************)
(* Lab-viva examination application: the viva session lifecycle (start,    *)
(* answer, finalize, violation), the schedule window evaluator, the MCQ    *)
(* generator with its option shuffle, as implemented by the Flask routes,  *)
(* the SQLAlchemy models and the services of the repository.               *)
(*                                                                         *)
(* Persistence.  Every request works on its own SQLAlchemy session: the    *)
(* rows it queries are loaded once, attribute assignments are kept in the  *)
(* request, and db.session.commit() flushes one UPDATE per dirty row       *)
(* (WHERE id = ...) that sets exactly the columns whose assigned value     *)
(* differs from the loaded value, or one INSERT per added object.  Nothing *)
(* is re-read before the flush and no row carries a version column.  A     *)
(* handler is therefore modelled by two steps: the step that runs its      *)
(* queries (and returns early where the code does), and the step that      *)
(* assigns, commits and answers.  Steps of different requests interleave.  *)
(***************************************************************************)
EXTENDS Integers, Sequences, FiniteSets, TLC

VARIABLES
    now,        \* datetime.utcnow(): [date, time |-> [hour, minute, second]]
    tz,         \* offset in minutes of the server's local zone (date.today())
    gemini,     \* get_gemini_service(): "configured" or "none"
    schedules,  \* table viva_schedules, row id = index
    sessions,   \* table viva_sessions, row id = index
    answers,    \* table student_answers, row id = index
    session_store, \* SESSION_STORE of viva_service: session key -> entry
    sheets,     \* get_sheets_service(): "configured" or "none"
    roster,     \* the mark cells of the Google Sheets: (sheet, row, column) -> value
    pend,       \* requests between their queries and their commit
    nreq,       \* number of requests received so far
    lastResp    \* the response of the request that answered last

vars ==
    <<now, tz, gemini, schedules, sessions, answers, session_store, sheets,
      roster, pend, nreq, lastResp>>

-----------------------------------------------------------------------------
(* Bounds of the model *)

\* requests handled concurrently (worker threads)
MaxProcs == 2
\* requests received in one behaviour
MaxReq == 4
\* stands for num_questions = 10 (student_routes.py:146): questions per viva
NumQuestions == 2

-----------------------------------------------------------------------------
(* Wall-clock time: datetime.date, datetime.time, strptime('%H:%M') *)

Digits == <<"0", "1", "2", "3", "4", "5", "6", "7", "8", "9">>

\* int() of one decimal digit character
DigitVal(c) == (CHOOSE i \in 1..10 : Digits[i] = c) - 1

\* str() of a one-digit integer: a question id, a key of an answers dict, a
\* mark
Str(n) == Digits[n + 1]

\* str() of an integer, as the sequence of its characters
RECURSIVE StrNat(_)
StrNat(n) == IF n < 10 THEN <<Digits[n + 1]>>
             ELSE Append(StrNat(n \div 10), Digits[(n % 10) + 1])
StrInt(n) == IF n < 0 THEN <<"-">> \o StrNat(0 - n) ELSE StrNat(n)

\* datetime.strptime(s, '%H:%M').time() on a five-character 'HH:MM' column
Strptime(s) ==
    [hour   |-> DigitVal(s[1]) * 10 + DigitVal(s[2]),
     minute |-> DigitVal(s[4]) * 10 + DigitVal(s[5]),
     second |-> 0]

\* datetime.time.__le__: comparison of (hour, minute, second), most
\* significant field first
TimeLE(a, b) ==
    \/ a.hour < b.hour
    \/ a.hour = b.hour /\ a.minute < b.minute
    \/ a.hour = b.hour /\ a.minute = b.minute /\ a.second <= b.second

\* datetime.time.__lt__, used by the mutants of the window evaluator
TimeLT(a, b) == TimeLE(a, b) /\ a # b

\* seconds since midnight of a datetime.time
SecondOfDay(t) == (t.hour * 60 + t.minute) * 60 + t.second

\* date.today(): the date of the server's local zone at UTC instant u
LocalToday(u, offset) ==
    u.date + ((SecondOfDay(u.time) + offset * 60) \div (24 * 60 * 60))

Mutant_IsActiveNow_ExclusiveEnd(sch, u) ==
    IF sch.scheduled_date # u.date
    THEN FALSE
    ELSE /\ TimeLE(Strptime(sch.start_time), u.time)
         /\ TimeLT(u.time, Strptime(sch.end_time))

Mutant_IsActiveNow_AnyDate(sch, u) ==
    /\ TimeLE(Strptime(sch.start_time), u.time)
    /\ TimeLE(u.time, Strptime(sch.end_time))

Mutant_IsActiveNow_AlwaysOpen(sch, u) == TRUE

\* VivaSchedule.is_active_now, with now = datetime.utcnow() = u
IsActiveNow(sch, u) ==
    IF sch.scheduled_date # u.date
    THEN FALSE
    ELSE /\ TimeLE(Strptime(sch.start_time), u.time)
         /\ TimeLE(u.time, Strptime(sch.end_time))


-----------------------------------------------------------------------------
(* Instants and inputs the model draws from *)

Time(h, m, sec) == [hour |-> h, minute |-> m, second |-> sec]
At(d, t) == [date |-> d, time |-> t]

\* the day the teacher schedules the viva for
ScheduleDay == 2

\* UTC instants of the lifecycle, in order: before the window, inside it,
\* after it
Timeline ==
    << At(ScheduleDay, Time(8, 59, 0)),
       At(ScheduleDay, Time(9, 0, 0)),
       At(ScheduleDay, Time(10, 1, 0)) >>

\* values of the 'HH:MM' form fields
HHMM(a, b, c, d) == <<a, b, ":", c, d>>
T0900 == HHMM("0", "9", "0", "0")
T1000 == HHMM("1", "0", "0", "0")

\* the form the teacher posts in the lifecycle: 09:00-10:00 on ScheduleDay
LifecycleForms ==
    {[scheduled_date |-> ScheduleDay, start_time |-> T0900, end_time |-> T1000]}

Students == {1, 2}
Experiments == {1}

\* Experiment.experiment_no of the experiment with primary key exp: the
\* number within its lab, which is not the primary key
ExperimentNo(exp) == exp + 1

Letters == <<"A", "B", "C", "D">>
LetterSet == {Letters[i] : i \in 1..4}

\* answer_text values posted by the client ("" is a missing field)
AnswerTexts == {"", "A", "b"}
\* question_number values posted by the client (0 is a missing field)
QuestionNumbers == 0..NumQuestions

Terminal == {"completed", "violated"}

-----------------------------------------------------------------------------
(* Question generation: GeminiService *)

OptionText(l) == <<"Option", l>>

\* GeminiService._generate_fallback_questions; choice[i] is the draw of
\* random.choice(['A','B','C','D']) for question i
FallbackQuestions(choice) ==
    [i \in 1..NumQuestions |->
        [question_number |-> i,
         question        |-> "fallback",
         options_kind    |-> "dict",
         options         |-> [l \in LetterSet |-> OptionText(l)],
         correct_answer  |-> choice[i]]]

\* The structure validation of generate_mcq_questions (lines 88-97) on the
\* value json.loads returned
PassesValidation(reply) ==
    /\ reply.kind = "list"
    /\ Len(reply.items) = NumQuestions
    /\ \A i \in 1..Len(reply.items) :
          /\ reply.items[i].options_kind = "dict"
          /\ reply.items[i].correct_answer \in LetterSet

\* GeminiService.generate_mcq_questions.  reply is what the backend call and
\* json.loads produce: kind "raise" (API error or timeout), "invalid_json"
\* (JSONDecodeError), "scalar" (valid JSON that is no list) or "list".
GenerateMcqQuestions(reply, choice) ==
    IF PassesValidation(reply)
    THEN [i \in 1..NumQuestions |->
             [question_number |-> i,
              question        |-> reply.items[i].question,
              options_kind    |-> reply.items[i].options_kind,
              options         |-> reply.items[i].options,
              correct_answer  |-> reply.items[i].correct_answer]]
    ELSE FallbackQuestions(choice)

\* a question as the prompt asks for it
Item(text, keys, correct) ==
    [question |-> text, options_kind |-> "dict",
     options |-> [l \in keys |-> OptionText(l)], correct_answer |-> correct]

\* backend replies of the lifecycle: two well-formed question lists
GoodReply(c) ==
    [kind |-> "list", items |-> [i \in 1..NumQuestions |-> Item("q", LetterSet, c)]]
LifecycleReplies == {GoodReply("A"), GoodReply("B")}
LifecycleChoices == {[i \in 1..NumQuestions |-> "A"]}

\* one question of a reply that json.loads accepted: as the prompt asks for
\* it, with three options only, without its text, without its options, with
\* a correct_answer outside A-D
ItemShapes ==
    {Item("q", LetterSet, "A"),
     Item("q", LetterSet, "D"),
     Item("q", {"A", "B", "C"}, "A"),
     Item("missing", LetterSet, "B"),
     [Item("q", {}, "A") EXCEPT !.options_kind = "missing"],
     Item("q", LetterSet, "E")}

\* a list of n questions of which the first has the given shape
ListReply(n, first) ==
    [kind |-> "list",
     items |-> [i \in 1..n |-> IF i = 1 THEN first ELSE Item("q", LetterSet, "C")]]

\* what the backend call and json.loads can produce: an exception (API error,
\* timeout), text that is no JSON, JSON that is no list, a list of the wrong
\* length, a list of the right length whose first question has any shape
GenReplies ==
    {[kind |-> k, items |-> <<>>] : k \in {"raise", "invalid_json", "scalar"}}
        \cup {ListReply(n, Item("q", LetterSet, "A")) :
                  n \in {NumQuestions - 1, NumQuestions + 1}}
        \cup {ListReply(NumQuestions, shape) : shape \in ItemShapes}
GenChoices == {[i \in 1..NumQuestions |-> c] : c \in {"A", "C"}}

-----------------------------------------------------------------------------
(* Rows, requests and responses *)

Procs == 1..MaxProcs

\* a request between its queries and its commit: loaded is the row its query
\* loaded, aux the rest of what it read or was posted, at the time of its
\* queries
Idle ==
    [op |-> "idle", user |-> 0, exp |-> 0, sid |-> 0, sch |-> 0,
     loaded |-> <<>>, aux |-> <<>>, at |-> <<>>]
Req(o, u) == [Idle EXCEPT !.op = o, !.user = u, !.at = now]

\* what a handler did about the Google Sheets: no call
NoSync ==
    [call |-> "none", reg_no |-> 0, experiment_no |-> 0, marks |-> 0,
     status |-> "none", outcome |-> "none"]

\* the response of a handler.  sid: the session it names; sch: the schedule
\* it evaluated; seen: the session status its query read; code: the outcome;
\* reason: the detail of the outcome; value: the marks it returns; at: the
\* time of its queries; sync: the Sheets update it called
Resp(o, u) ==
    [op |-> o, user |-> u, exp |-> 0, sid |-> 0, sch |-> 0, seen |-> "none",
     code |-> "none", reason |-> "none", value |-> 0, at |-> now,
     sync |-> NoSync]

\* the response of the commit step of request r
Done(r, c) ==
    [op |-> r.op, user |-> r.user, exp |-> r.exp, sid |-> r.sid, sch |-> r.sch,
     seen |-> "none", code |-> c, reason |-> "none", value |-> 0, at |-> r.at,
     sync |-> NoSync]

\* a request is accepted on the lowest free worker
CanBegin(p) ==
    /\ nreq < MaxReq
    /\ pend[p].op = "idle"
    /\ \A q \in Procs : q < p => pend[q].op # "idle"

\* the handler answers from its query step
Answer(r) ==
    /\ lastResp' = r
    /\ pend' = pend
    /\ nreq' = nreq + 1

\* the handler goes on to its commit step
Proceed(p, r) ==
    /\ pend' = [pend EXCEPT ![p] = r]
    /\ lastResp' = lastResp
    /\ nreq' = nreq + 1

\* the commit step answers and frees the worker
Finish(p, r) ==
    /\ lastResp' = r
    /\ pend' = [pend EXCEPT ![p] = Idle]
    /\ nreq' = nreq

\* VivaSession.total_marks: one mark for each of the questions of a viva (10
\* in the application, NumQuestions here)
TotalMarks == NumQuestions

\* VivaSession(...) as start_viva and secure_exam construct it; the column
\* defaults fill the rest at INSERT
NewSession(user, exp, sch, questions) ==
    [student_id |-> user, experiment_id |-> exp, schedule_id |-> sch,
     status |-> "in_progress", obtained_marks |-> 0,
     generated_questions |-> questions,
     violation_detected |-> FALSE, violation_reason |-> "null",
     violation_count |-> 0]

\* the UPDATE of db.session.commit(): the columns whose assigned value differs
\* from the loaded one are written to the stored row, the others are not
Flush(stored, loaded, assigned) ==
    [c \in DOMAIN stored |->
        IF c \in DOMAIN assigned /\ assigned[c] # loaded[c]
        THEN assigned[c] ELSE stored[c]]

SchedulesOf(exp) == {i \in DOMAIN schedules : schedules[i].experiment_id = exp}

Mutant_SessionsOf_NeverFound(user, exp) == {}

\* VivaSession.query.filter_by(student_id, experiment_id): the ids of the rows
SessionsOf(user, exp) ==
    {i \in DOMAIN sessions :
        sessions[i].student_id = user /\ sessions[i].experiment_id = exp}

-----------------------------------------------------------------------------
(* Google Sheets: SheetsService (sheets_service.py) as the handlers call it *)

\* one call of an update method of the service: the cell is written and True
\* returned, or nothing is written and False returned (API error, no row for
\* the student), or the call raises before the method's own try (or in the
\* handler's arguments)
SheetOutcomes == {"written", "false", "raised"}

\* sheets = get_sheets_service(); if sheets and ...: the call is made only
\* when the service is configured
SyncOutcomes(service) ==
    IF service = "configured" THEN SheetOutcomes ELSE {"none"}

\* the text an update method puts into the cell: update_viva_marks writes
\* '0 (V)' for status 'violated' and str(marks) otherwise,
\* update_student_experiment_mark writes str(marks)
CellValue(call, marks, status) ==
    IF call = "update_viva_marks" /\ status = "violated"
    THEN <<Str(0), " (V)">> ELSE StrInt(marks)

\* the call a handler makes, as its response records it
SheetCall(call, reg_no, experiment_no, marks, status, outcome) ==
    IF outcome = "none" THEN NoSync
    ELSE [call |-> call, reg_no |-> reg_no, experiment_no |-> experiment_no,
          marks |-> marks, status |-> status, outcome |-> outcome]

\* the cells after the call c: update_viva_marks writes the sheet of the lab,
\* update_student_experiment_mark writes 'Sheet1'; the row is the student's,
\* the column the experiment's
RosterAfter(cells, c) ==
    IF c.outcome # "written" THEN cells
    ELSE LET key == <<c.call, c.reg_no, c.experiment_no>> IN
         [k \in DOMAIN cells \cup {key} |->
             IF k = key THEN CellValue(c.call, c.marks, c.status) ELSE cells[k]]

Mutant_SyncedResponse_FailurePropagates(r, c) ==
    [r EXCEPT !.sync = c,
              !.code = IF c.outcome \in {"false", "raised"} THEN "ServerError" ELSE @]

\* the response of a handler after its Sheets call: an exception of the call
\* is caught and printed, the value returned is not part of the outcome
SyncedResponse(r, c) == [r EXCEPT !.sync = c]

-----------------------------------------------------------------------------
(* Teacher: schedule_viva (teacher_routes.py) *)

\* POST /schedule-viva up to its existence check and validation
ScheduleVivaQuery(p, exp, form) ==
    /\ CanBegin(p)
    /\ LET r == [Resp("schedule_viva", 0) EXCEPT !.exp = exp] IN
       IF SchedulesOf(exp) # {}
       THEN Answer([r EXCEPT !.code = "AlreadyScheduled"])
       ELSE IF ~TimeLT(Strptime(form.start_time), Strptime(form.end_time))
       THEN Answer([r EXCEPT !.code = "Invalid", !.reason = "start-not-before-end"])
       ELSE IF \/ form.scheduled_date < now.date
               \/ /\ form.scheduled_date = now.date
                  /\ TimeLT(Strptime(form.start_time), now.time)
       THEN Answer([r EXCEPT !.code = "Invalid", !.reason = "in-the-past"])
       ELSE Proceed(p, [Req("schedule_viva", 0) EXCEPT !.exp = exp, !.aux = form])
    /\ UNCHANGED <<sheets, roster, session_store, now, tz, gemini, schedules, sessions, answers>>

\* db.session.add(schedule); db.session.commit()
ScheduleVivaCommit(p) ==
    /\ pend[p].op = "schedule_viva"
    /\ schedules' = Append(schedules,
          [experiment_id  |-> pend[p].exp,
           scheduled_date |-> pend[p].aux.scheduled_date,
           start_time     |-> pend[p].aux.start_time,
           end_time       |-> pend[p].aux.end_time,
           enrolled_count |-> 0])
    /\ Finish(p, [Done(pend[p], "Scheduled") EXCEPT !.sch = Len(schedules) + 1])
    /\ UNCHANGED <<sheets, roster, session_store, now, tz, gemini, sessions, answers>>

-----------------------------------------------------------------------------
(* Student: start_viva (student_routes.py), secure_exam (viva_routes.py) *)

\* the flash message start_viva picks when the window check fails
ClosedReason(sch, u, offset) ==
    IF sch.scheduled_date > LocalToday(u, offset) THEN "early"
    ELSE IF sch.scheduled_date < LocalToday(u, offset) THEN "expired"
    ELSE "outside-hours"

\* the part start_viva and secure_exam share: schedule lookup, window check,
\* lookup of the existing session; closed is the detail of a closed window
StartQuery(p, o, user, exp) ==
    /\ CanBegin(p)
    /\ LET r == [Resp(o, user) EXCEPT !.exp = exp] IN
       IF SchedulesOf(exp) = {}
       THEN Answer([r EXCEPT !.code = "NotScheduled"])
       ELSE \E si \in SchedulesOf(exp) :
            IF ~IsActiveNow(schedules[si], now)
            THEN Answer([r EXCEPT !.sch = si, !.code = "WindowClosed",
                            !.reason = IF o = "start_viva"
                                       THEN ClosedReason(schedules[si], now, tz)
                                       ELSE "not-active"])
            ELSE IF SessionsOf(user, exp) = {}
            THEN Proceed(p, [Req(o, user) EXCEPT !.exp = exp, !.sch = si,
                                !.loaded = schedules[si]])
            ELSE \E e \in SessionsOf(user, exp) :
                 Answer([r EXCEPT !.sch = si, !.sid = e,
                            !.seen = sessions[e].status,
                            !.code = IF sessions[e].status \in Terminal
                                     THEN "AlreadyCompleted" ELSE "Resumed"])
    /\ UNCHANGED <<sheets, roster, session_store, now, tz, gemini, schedules, sessions, answers>>

\* GET /student/viva/start/<experiment_id> up to "Create new session"
StartVivaQuery(p, user, exp) == StartQuery(p, "start_viva", user, exp)

\* GET /viva/secure-exam/<experiment_id> up to "Create or get viva session"
SecureExamQuery(p, user, exp) == StartQuery(p, "secure_exam", user, exp)

\* the question set start_viva stores: generated when the service is
\* configured, empty otherwise
StartVivaQuestions(service, reply, choice) ==
    IF service = "configured" THEN GenerateMcqQuestions(reply, choice) ELSE <<>>

\* schedule.enrolled_count += 1 on the schedule the request loaded
Enroll(p) ==
    [schedules EXCEPT ![pend[p].sch] =
        Flush(@, pend[p].loaded,
              [enrolled_count |-> pend[p].loaded.enrolled_count + 1])]

\* start_viva from "Create new session" to the commit
StartVivaCommit(p, replies, choices) ==
    /\ pend[p].op = "start_viva"
    /\ \E reply \in replies, choice \in choices :
          sessions' = Append(sessions,
              NewSession(pend[p].user, pend[p].exp, pend[p].sch,
                         StartVivaQuestions(gemini, reply, choice)))
    /\ schedules' = Enroll(p)
    /\ Finish(p, [Done(pend[p], "Started") EXCEPT !.sid = Len(sessions) + 1])
    /\ UNCHANGED <<sheets, roster, session_store, now, tz, gemini, answers>>

\* secure_exam: the session is inserted with the default (empty) question set
SecureExamCommit(p) ==
    /\ pend[p].op = "secure_exam"
    /\ sessions' = Append(sessions,
          NewSession(pend[p].user, pend[p].exp, pend[p].sch, <<>>))
    /\ schedules' = Enroll(p)
    /\ Finish(p, [Done(pend[p], "Started") EXCEPT !.sid = Len(sessions) + 1])
    /\ UNCHANGED <<sheets, roster, session_store, now, tz, gemini, answers>>

\* GET /viva/api/experiments: the experiments whose schedule is active now
GetExperiments(p) ==
    /\ CanBegin(p)
    /\ \E pick \in [{e \in Experiments : SchedulesOf(e) # {}} -> DOMAIN schedules] :
          /\ \A e \in DOMAIN pick : pick[e] \in SchedulesOf(e)
          /\ Answer([Resp("get_experiments", 0) EXCEPT
                !.reason = pick,
                !.value = {e \in DOMAIN pick : IsActiveNow(schedules[pick[e]], now)}])
    /\ UNCHANGED <<sheets, roster, session_store, now, tz, gemini, schedules, sessions, answers>>

-----------------------------------------------------------------------------
(* Scoring: GeminiService.evaluate_answers *)

\* str.upper() on the texts the model posts
Upper(t) ==
    CASE t = "a" -> "A" [] t = "b" -> "B" [] t = "c" -> "C" [] t = "d" -> "D"
      [] OTHER -> t

\* {a.question_number: a.answer_text for a in answers}: a later row replaces
\* an earlier one with the same key
AnswersDict(rows) ==
    [n \in {rows[i].question_number : i \in DOMAIN rows} |->
        LET last == CHOOSE i \in DOMAIN rows :
                       /\ rows[i].question_number = n
                       /\ \A j \in DOMAIN rows :
                             rows[j].question_number = n => j <= i
        IN rows[last].answer_text]

\* student_answers.get(q_num, '')
DictGet(d, k, default) == IF k \in DOMAIN d THEN d[k] ELSE default

\* the marks evaluate_answers gives question q
QuestionMarks(q, student_answers) ==
    IF Upper(DictGet(student_answers, q.question_number, "")) = Upper(q.correct_answer)
    THEN 1 ELSE 0

RECURSIVE SumMarks(_, _, _)
SumMarks(questions, student_answers, n) ==
    IF n = 0 THEN 0
    ELSE SumMarks(questions, student_answers, n - 1)
            + QuestionMarks(questions[n], student_answers)

\* evaluate_answers(questions, student_answers)['obtained_marks']
EvaluateAnswers(questions, student_answers) ==
    SumMarks(questions, student_answers, Len(questions))

\* evaluate_answers(questions, student_answers): the totals and the marks of
\* each question
EvaluateAnswersResult(questions, student_answers) ==
    [total    |-> Len(questions),
     obtained |-> EvaluateAnswers(questions, student_answers),
     marks    |-> [i \in DOMAIN questions |->
                      QuestionMarks(questions[i], student_answers)]]

-----------------------------------------------------------------------------
(* Scoring: calculate_score (viva_service.py), evaluate_mcq_answers *)
(* (perplexity_service.py)                                           *)

\* the sum of the first n elements of a sequence of marks
RECURSIVE SumOf(_, _)
SumOf(marks, n) == IF n = 0 THEN 0 ELSE SumOf(marks, n - 1) + marks[n]

\* normalized_answers = {str(k): v for k, v in answers.items()}
NormalizedAnswers(submitted) ==
    [k \in {Str(n) : n \in DOMAIN submitted} |->
        submitted[CHOOSE n \in DOMAIN submitted : Str(n) = k]]

\* is_correct of calculate_score as the truth value 'if is_correct' tests:
\* selected_answer and correct_answer and selected_answer == correct_answer
ScoreIsCorrect(question, normalized_answers) ==
    LET selected_answer == DictGet(normalized_answers, Str(question.id), "None")
        correct_answer  == question.correct_answer
    IN /\ selected_answer \notin {"None", ""}
       /\ correct_answer \notin {"None", ""}
       /\ selected_answer = correct_answer

\* calculate_score(questions, answers), submitted being its answers dict
CalculateScore(questions, submitted) ==
    LET marks == [i \in DOMAIN questions |->
                    IF ScoreIsCorrect(questions[i], NormalizedAnswers(submitted))
                    THEN 1 ELSE 0]
    IN [total |-> Len(questions), obtained |-> SumOf(marks, Len(marks)),
        marks |-> marks]

\* marks of one question in evaluate_mcq_answers: an empty answer is never
\* correct
McqQuestionMarks(q, student_answers) ==
    LET student_ans == DictGet(student_answers, q.question_number, "")
    IN IF student_ans # "" /\ Upper(student_ans) = Upper(q.correct_answer)
       THEN 1 ELSE 0

\* evaluate_mcq_answers(questions, student_answers)
EvaluateMcqAnswers(questions, student_answers) ==
    LET marks == [i \in DOMAIN questions |->
                    McqQuestionMarks(questions[i], student_answers)]
    IN [total |-> Len(questions), obtained |-> SumOf(marks, Len(marks)),
        marks |-> marks]

-----------------------------------------------------------------------------
(* Student API: api_routes.py *)

AnswerIdsOf(sid) == {i \in DOMAIN answers : answers[i].viva_session_id = sid}
AnswerIdsAt(sid, qn) == {i \in AnswerIdsOf(sid) : answers[i].question_number = qn}

\* the ids of a set of rows in ascending order
RECURSIVE SortedIds(_)
SortedIds(S) ==
    IF S = {} THEN <<>>
    ELSE LET m == CHOOSE x \in S : \A y \in S : x <= y
         IN <<m>> \o SortedIds(S \ {m})

\* a request on session sid by user, as the handlers load it
OnSession(o, user, sid) ==
    [Req(o, user) EXCEPT !.sid = sid, !.exp = sessions[sid].experiment_id,
                         !.sch = sessions[sid].schedule_id,
                         !.loaded = sessions[sid]]
Seen(o, user, sid) ==
    [Resp(o, user) EXCEPT !.sid = sid, !.exp = sessions[sid].experiment_id,
                          !.sch = sessions[sid].schedule_id,
                          !.seen = sessions[sid].status]
DoneOn(r, c) == [Done(r, c) EXCEPT !.seen = r.loaded.status]

Mutant_ExistingAnswer_NeverFound(sid, qn) == {0}

\* StudentAnswer.query.filter_by(viva_session_id, question_number).first():
\* the ids of the rows the query can return, {0} for None
ExistingAnswer(sid, qn) ==
    IF AnswerIdsAt(sid, qn) = {} THEN {0} ELSE AnswerIdsAt(sid, qn)

\* POST /api/viva/<id>/submit-answer up to the lookup of the existing answer
SubmitAnswerQuery(p, user, sid, qn, text) ==
    /\ CanBegin(p)
    /\ IF sessions[sid].student_id # user
       THEN Answer([Seen("submit_answer", user, sid) EXCEPT !.code = "Unauthorized"])
       ELSE IF qn = 0 \/ text = ""
       THEN Answer([Seen("submit_answer", user, sid) EXCEPT !.code = "MissingFields"])
       ELSE \E existing \in ExistingAnswer(sid, qn) :
               Proceed(p, [OnSession("submit_answer", user, sid) EXCEPT !.aux =
                   [question_number |-> qn, answer_text |-> text,
                    existing |-> existing,
                    row |-> IF existing = 0 THEN <<>> ELSE answers[existing]]])
    /\ UNCHANGED <<sheets, roster, session_store, now, tz, gemini, schedules, sessions, answers>>

\* UniqueConstraint('viva_session_id', 'question_number'): the INSERT of a
\* second row for the pair raises IntegrityError
AnswerInsertAllowed(sid, qn) == AnswerIdsAt(sid, qn) = {}

\* submit_answer: the update of the existing row or the insert of a new one,
\* and the commit; an IntegrityError is rolled back and answered with 500
SubmitAnswerCommit(p) ==
    /\ pend[p].op = "submit_answer"
    /\ LET a == pend[p].aux IN
       IF a.existing # 0
       THEN /\ answers' = [answers EXCEPT ![a.existing] =
                              Flush(@, a.row, [answer_text |-> a.answer_text])]
            /\ Finish(p, [DoneOn(pend[p], "Saved") EXCEPT
                             !.reason = "updated", !.value = a.question_number])
       ELSE IF AnswerInsertAllowed(pend[p].sid, a.question_number)
       THEN /\ answers' = Append(answers,
                   [viva_session_id |-> pend[p].sid,
                    question_number |-> a.question_number,
                    answer_text     |-> a.answer_text,
                    marks_obtained  |-> <<>>])
            /\ Finish(p, [DoneOn(pend[p], "Saved") EXCEPT
                             !.reason = "inserted", !.value = a.question_number])
       ELSE /\ answers' = answers
            /\ Finish(p, [DoneOn(pend[p], "ServerError") EXCEPT
                             !.reason = "IntegrityError"])
    /\ UNCHANGED <<sheets, roster, session_store, now, tz, gemini, schedules, sessions>>

\* POST /api/viva/<id>/submit up to the query of the student's answers
SubmitVivaQuery(p, user, sid) ==
    /\ CanBegin(p)
    /\ IF sessions[sid].student_id # user
       THEN Answer([Seen("submit_viva", user, sid) EXCEPT !.code = "Unauthorized"])
       ELSE IF sessions[sid].status \in Terminal
       THEN Answer([Seen("submit_viva", user, sid) EXCEPT !.code = "AlreadyFinalized"])
       ELSE Proceed(p, [OnSession("submit_viva", user, sid) EXCEPT !.aux =
               [ids  |-> SortedIds(AnswerIdsOf(sid)),
                rows |-> [i \in 1..Cardinality(AnswerIdsOf(sid)) |->
                             answers[SortedIds(AnswerIdsOf(sid))[i]]]]])
    /\ UNCHANGED <<sheets, roster, session_store, now, tz, gemini, schedules, sessions, answers>>

\* the marks submit_viva assigns: the evaluation of the stored questions, or
\* the number of answer rows when there is no service or no question
SubmitVivaMarks(service, questions, rows) ==
    IF service = "configured" /\ Len(questions) > 0
    THEN EvaluateAnswers(questions, AnswersDict(rows))
    ELSE Len(rows)

\* submit_viva from the evaluation to the response: evaluation, commit,
\* update of the Google Sheets when the service is configured
SubmitVivaCommit(p) ==
    /\ pend[p].op = "submit_viva"
    /\ LET viva      == pend[p].loaded
           rows      == pend[p].aux.rows
           ids       == pend[p].aux.ids
           questions == viva.generated_questions
           marks     == SubmitVivaMarks(gemini, questions, rows)
           \* next((a for a in answers if a.question_number == n), None)
           first(n)  == {i \in DOMAIN rows :
                           /\ rows[i].question_number = n
                           /\ \A j \in DOMAIN rows :
                                 rows[j].question_number = n => i <= j}
           \* the row after the commit, as viva.obtained_marks and
           \* viva.status read it back
           stored    == Flush(sessions[pend[p].sid], viva,
                              [obtained_marks |-> marks, status |-> "completed"])
       IN
       /\ sessions' = [sessions EXCEPT ![pend[p].sid] = stored]
       /\ \E outcome \in SyncOutcomes(sheets) :
             LET c == SheetCall("update_viva_marks", pend[p].user,
                                ExperimentNo(pend[p].exp),
                                stored.obtained_marks, stored.status, outcome)
             IN /\ roster' = RosterAfter(roster, c)
                /\ Finish(p, SyncedResponse(
                       [DoneOn(pend[p], "Success") EXCEPT
                           !.value = stored.obtained_marks], c))
       /\ answers' =
             IF gemini = "configured" /\ Len(questions) > 0
             THEN [k \in DOMAIN answers |->
                     IF \E i \in DOMAIN rows, q \in DOMAIN questions :
                           /\ ids[i] = k
                           /\ i \in first(questions[q].question_number)
                     THEN LET i == CHOOSE i \in DOMAIN rows : ids[i] = k
                              q == CHOOSE q \in DOMAIN questions :
                                      questions[q].question_number = rows[i].question_number
                          IN Flush(answers[k], rows[i],
                                [marks_obtained |->
                                    <<QuestionMarks(questions[q], AnswersDict(rows))>>])
                     ELSE answers[k]]
             ELSE answers
    /\ UNCHANGED <<sheets, session_store, now, tz, gemini, schedules>>

Mutant_FinalizeViolation_StatusKept(reason) ==
    [violation_detected |-> TRUE, violation_reason |-> reason, obtained_marks |-> 0]

\* the columns VivaSession.finalize_violation assigns (completed_at is not
\* modelled)
FinalizeViolation(reason) ==
    [violation_detected |-> TRUE, violation_reason |-> reason,
     obtained_marks |-> 0, status |-> "violated"]

\* GET /api/viva/<id>/progress: the number of answers stored for the session
GetVivaProgress(p, user, sid) ==
    /\ CanBegin(p)
    /\ IF sessions[sid].student_id # user
       THEN Answer([Seen("get_viva_progress", user, sid) EXCEPT !.code = "Unauthorized"])
       ELSE Answer([Seen("get_viva_progress", user, sid) EXCEPT
                       !.code = "Progress",
                       !.value = Cardinality(AnswerIdsOf(sid))])
    /\ UNCHANGED <<sheets, roster, session_store, now, tz, gemini, schedules, sessions, answers>>

\* POST /api/viva/<id>/violation up to its status check
ApiViolationQuery(p, user, sid) ==
    /\ CanBegin(p)
    /\ IF sessions[sid].student_id # user
       THEN Answer([Seen("api_report_violation", user, sid) EXCEPT
                       !.code = "Unauthorized"])
       ELSE IF sessions[sid].status \in Terminal
       THEN Answer([Seen("api_report_violation", user, sid) EXCEPT
                       !.code = "AlreadyFinalized"])
       ELSE Proceed(p, OnSession("api_report_violation", user, sid))
    /\ UNCHANGED <<sheets, roster, session_store, now, tz, gemini, schedules, sessions, answers>>

\* violation_count + 1, finalize_violation(reason), commit, and the write of
\* 0 marks to the Google Sheets when the service is configured: the body both
\* report_violation handlers share; call is the update method the handler
\* uses
ViolationCommit(p, o, call) ==
    /\ pend[p].op = o
    /\ sessions' = [sessions EXCEPT ![pend[p].sid] =
          Flush(@, pend[p].loaded,
                [violation_count |-> pend[p].loaded.violation_count + 1]
                   @@ FinalizeViolation("tab-switch"))]
    /\ \E outcome \in SyncOutcomes(sheets) :
          LET c == SheetCall(call, pend[p].user, ExperimentNo(pend[p].exp), 0,
                              "violated", outcome)
          IN /\ roster' = RosterAfter(roster, c)
             /\ Finish(p, SyncedResponse(DoneOn(pend[p], "Success"), c))
    /\ UNCHANGED <<sheets, session_store, now, tz, gemini, schedules, answers>>

ApiViolationCommit(p) ==
    ViolationCommit(p, "api_report_violation", "update_viva_marks")

-----------------------------------------------------------------------------
(* Secure exam API: viva_routes.py.  The routes are defined on the blueprint *)
(* viva_bp; create_app of app.py registers the blueprints auth, student,     *)
(* teacher, api and chatbot.  The routes are modelled as served.             *)

\* POST /viva/api/violation up to its checks: a request that does not reach
\* the finalization is answered with success all the same
VivaViolationQuery(p, user, sid) ==
    /\ CanBegin(p)
    /\ IF sessions[sid].student_id = user /\ sessions[sid].status \notin Terminal
       THEN Proceed(p, OnSession("viva_report_violation", user, sid))
       ELSE Answer([Seen("viva_report_violation", user, sid) EXCEPT !.code = "Success"])
    /\ UNCHANGED <<sheets, roster, session_store, now, tz, gemini, schedules, sessions, answers>>

VivaViolationCommit(p) ==
    ViolationCommit(p, "viva_report_violation", "update_student_experiment_mark")

\* scores save_marks computes from the request body: int(client_score), or
\* calculate_score on the questions and answers the client names
SaveMarksScores == (0 - 1)..(NumQuestions + 1)

\* the experiment_id field of a save_marks body: absent (0), or a number the
\* client sends, the primary key of an experiment or its experiment_no
SaveMarksExperimentIds ==
    {0} \cup Experiments \cup {ExperimentNo(e) : e \in Experiments}

\* request bodies of save_marks: scored tells whether lines 211-233 have a
\* score (a client score, or questions to calculate one from), score is that
\* score, experiment_id the field of the body (0: absent)
SaveMarksBodies ==
    {[scored |-> TRUE, score |-> k, experiment_id |-> e] :
        k \in SaveMarksScores, e \in SaveMarksExperimentIds}
      \cup {[scored |-> FALSE, score |-> 0, experiment_id |-> 0]}

\* the Sheets update of save_marks: the caller's own row, the column of the
\* experiment the body names (1 when it names none), the score
SaveMarksSync(user, body, outcome) ==
    SheetCall("update_student_experiment_mark", user,
              IF body.experiment_id # 0 THEN body.experiment_id ELSE 1,
              body.score, "none", outcome)

\* POST /viva/api/save-marks up to the load of the session.  A body without
\* score and questions is answered with 400; a session of another student is
\* not updated, the Sheets update and the success response follow all the
\* same
SaveMarksQuery(p, user, sid, body) ==
    /\ CanBegin(p)
    /\ IF ~body.scored
       THEN /\ Answer([Seen("save_marks", user, sid) EXCEPT !.code = "NoQuestions"])
            /\ roster' = roster
       ELSE IF sessions[sid].student_id = user
       THEN /\ Proceed(p, [OnSession("save_marks", user, sid) EXCEPT !.aux = body])
            /\ roster' = roster
       ELSE \E outcome \in SyncOutcomes(sheets) :
               LET c == SaveMarksSync(user, body, outcome) IN
               /\ roster' = RosterAfter(roster, c)
               /\ Answer(SyncedResponse(
                      [Seen("save_marks", user, sid) EXCEPT
                          !.code = "Success", !.value = body.score], c))
    /\ UNCHANGED <<sheets, session_store, now, tz, gemini, schedules, sessions, answers>>

\* save_marks: obtained_marks and status are assigned whatever the status
\* was, the commit, the Sheets update
SaveMarksCommit(p) ==
    /\ pend[p].op = "save_marks"
    /\ sessions' = [sessions EXCEPT ![pend[p].sid] =
          Flush(@, pend[p].loaded,
                [obtained_marks |-> pend[p].aux.score, status |-> "completed"])]
    /\ \E outcome \in SyncOutcomes(sheets) :
          LET c == SaveMarksSync(pend[p].user, pend[p].aux, outcome) IN
          /\ roster' = RosterAfter(roster, c)
          /\ Finish(p, SyncedResponse(
                 [DoneOn(pend[p], "Success") EXCEPT !.value = pend[p].aux.score], c))
    /\ UNCHANGED <<sheets, session_store, now, tz, gemini, schedules, answers>>

-----------------------------------------------------------------------------
(* Student: attempt_viva (student_routes.py) *)

\* GET /student/viva/attempt/<id> up to the window check
AttemptVivaQuery(p, user, sid) ==
    /\ CanBegin(p)
    /\ IF sessions[sid].student_id # user
       THEN Answer([Seen("attempt_viva", user, sid) EXCEPT !.code = "Unauthorized"])
       ELSE IF sessions[sid].status \in Terminal
       THEN Answer([Seen("attempt_viva", user, sid) EXCEPT !.code = "AlreadyCompleted"])
       ELSE IF ~IsActiveNow(schedules[sessions[sid].schedule_id], now)
       THEN Proceed(p, OnSession("attempt_viva", user, sid))
       ELSE Answer([Seen("attempt_viva", user, sid) EXCEPT !.code = "Interface"])
    /\ UNCHANGED <<sheets, roster, session_store, now, tz, gemini, schedules, sessions, answers>>

\* attempt_viva outside the window: finalize_violation('Time window
\* expired') and commit
AttemptVivaCommit(p) ==
    /\ pend[p].op = "attempt_viva"
    /\ sessions' = [sessions EXCEPT ![pend[p].sid] =
          Flush(@, pend[p].loaded, FinalizeViolation("time-window-expired"))]
    /\ Finish(p, DoneOn(pend[p], "WindowExpired"))
    /\ UNCHANGED <<sheets, roster, session_store, now, tz, gemini, schedules, answers>>

-----------------------------------------------------------------------------
(* Secure exam question generation: viva_service.py, generate_mcq *)

\* the orders random.shuffle can leave a list of n elements in: the element
\* at place i of the result comes from place perm[i]
ShuffleOrders(n) ==
    {perm \in [1..n -> 1..n] : \A i, j \in 1..n : perm[i] = perm[j] => i = j}

\* a list after random.shuffle drew the order perm
Shuffled(list, perm) == [i \in 1..Len(list) |-> list[perm[i]]]

Mutant_LetterMapping_Identity(items) ==
    [old_letter \in {items[i][1] : i \in DOMAIN items} |-> old_letter]

\* letter_mapping as the loop of shuffle_options fills it: the old letter of
\* each shuffled item to the letter of its place
LetterMapping(items) ==
    [old_letter \in {items[i][1] : i \in DOMAIN items} |->
        Letters[CHOOSE idx \in DOMAIN items : items[idx][1] = old_letter]]

Mutant_ShuffleOptions_OldLettersKept(options, perm) ==
    LET items == Shuffled(options, perm) IN
    [new_options    |-> items,
     letter_mapping |-> LetterMapping(items)]

\* shuffle_options(options, seed).  options is the dict as the list of its
\* (letter, text) items; perm is the order random.shuffle draws under the seed
ShuffleOptions(options, perm) ==
    LET items == Shuffled(options, perm) IN
    [new_options    |-> [idx \in 1..Len(items) |-> <<Letters[idx], items[idx][2]>>],
     letter_mapping |-> LetterMapping(items)]

\* the body of the loop of _generate_mcq_direct_perplexity on one question
RemapQuestion(question, idx, perm) ==
    LET original_correct == IF question.correct_answer = "missing"
                            THEN "A" ELSE question.correct_answer
        shuffled == ShuffleOptions(question.options, perm)
    IN [question EXCEPT
           !.options = shuffled.new_options,
           !.correct_answer =
               DictGet(shuffled.letter_mapping, original_correct, original_correct),
           !.id = idx]

\* store_session_questions(session_key, questions, topic) at time t
StoreSessionQuestions(store, session_key, questions, t) ==
    [k \in DOMAIN store \cup {session_key} |->
        IF k = session_key
        THEN [questions |-> questions, created_at |-> t]
        ELSE store[k]]

\* POST /viva/api/generate up to the parsed reply of a generator.  backend is
\* the question list the Java backend returned (empty when it is disabled,
\* fails or asks for the fallback); reply is what the Perplexity call and
\* json.loads produce: kind "no_key" (PERPLEXITY_API_KEY unset),
\* "request_failed" (RequestException, timeout), "invalid_json", "scalar"
\* (JSON that is no object) or "dict"
GenerateMcqQuery(p, user, exp, backend, reply) ==
    /\ CanBegin(p)
    /\ LET r == [Resp("generate_mcq", user) EXCEPT !.exp = exp]
           q == [Req("generate_mcq", user) EXCEPT !.exp = exp]
       IN
       IF Len(backend) > 0
       THEN Proceed(p, [q EXCEPT !.aux = [source |-> "backend", questions |-> backend]])
       ELSE IF reply.kind # "dict"
       THEN Answer([r EXCEPT !.code = "Error", !.reason = reply.kind])
       ELSE Proceed(p, [q EXCEPT !.aux =
                           [source |-> "perplexity", questions |-> reply.questions]])
    /\ UNCHANGED <<sheets, roster, session_store, now, tz, gemini, schedules, sessions, answers>>

\* generate_mcq from the shuffle of the questions to the response: the
\* questions are shuffled, the options of each Perplexity question are
\* shuffled and its correct_answer remapped, the result is kept in
\* SESSION_STORE and returned; shuffles are the orders the option shuffles
\* can draw
GenerateMcqCommit(p, shuffles) ==
    /\ pend[p].op = "generate_mcq"
    /\ \E order \in ShuffleOrders(Len(pend[p].aux.questions)) :
       LET source     == pend[p].aux.source
           questions  == Shuffled(pend[p].aux.questions, order)
           session_key == <<pend[p].user, pend[p].exp>>
           inputs     == [source |-> source, questions |-> pend[p].aux.questions,
                          order |-> order]
           Fail(why)  == /\ session_store' = session_store
                         /\ Finish(p, [Done(pend[p], "Error") EXCEPT !.reason = why])
           Succeed(result) ==
               /\ session_store' =
                     StoreSessionQuestions(session_store, session_key, result, now)
               /\ Finish(p, [Done(pend[p], "Success") EXCEPT
                                !.reason = inputs, !.value = result])
       IN
       IF source = "backend"
       THEN Succeed([idx \in 1..Len(questions) |-> [questions[idx] EXCEPT !.id = idx]])
       ELSE IF \E idx \in DOMAIN questions : questions[idx].options_kind # "dict"
       THEN Fail("KeyError")
       ELSE IF Len(questions) = 0
       THEN Fail("no-questions")
       ELSE \E perms \in [DOMAIN questions -> shuffles] :
               /\ \A idx \in DOMAIN questions :
                     DOMAIN perms[idx] = DOMAIN questions[idx].options
               /\ Succeed([idx \in 1..Len(questions) |->
                              RemapQuestion(questions[idx], idx, perms[idx])])
    /\ UNCHANGED <<sheets, roster, now, tz, gemini, schedules, sessions, answers>>

-----------------------------------------------------------------------------
(* The clock and the lifecycle specification *)

Earlier(a, b) ==
    \/ a.date < b.date
    \/ a.date = b.date /\ TimeLT(a.time, b.time)

\* time passes: utcnow() moves to a later one of the given instants
TickTo(instants) ==
    /\ \E t \in instants : Earlier(now, t) /\ now' = t
    /\ UNCHANGED <<sheets, roster, session_store, tz, gemini, schedules, sessions, answers, pend,
                 nreq, lastResp>>

Tick == TickTo({Timeline[i] : i \in DOMAIN Timeline})

InitAt(t) ==
    /\ now = t
    /\ schedules = <<>>
    /\ sessions = <<>>
    /\ answers = <<>>
    /\ session_store = <<>>
    /\ roster = <<>>
    /\ pend = [p \in Procs |-> Idle]
    /\ nreq = 0
    /\ lastResp = Resp("none", 0)

Init ==
    /\ InitAt(Timeline[1])
    /\ tz = 0
    /\ gemini \in {"configured", "none"}
    /\ sheets \in {"configured", "none"}

\* the steps of the lifecycle with the requests handled by the workers ps
NextOn(ps) ==
    \/ Tick
    \/ \E p \in ps, exp \in Experiments, form \in LifecycleForms :
          ScheduleVivaQuery(p, exp, form)
    \/ \E p \in ps : ScheduleVivaCommit(p)
    \/ \E p \in ps, user \in Students, exp \in Experiments :
          StartVivaQuery(p, user, exp)
    \/ \E p \in ps : StartVivaCommit(p, LifecycleReplies, LifecycleChoices)
    \/ \E p \in ps, user \in Students, exp \in Experiments :
          SecureExamQuery(p, user, exp)
    \/ \E p \in ps : SecureExamCommit(p)
    \/ \E p \in ps, user \in Students, sid \in DOMAIN sessions,
          qn \in QuestionNumbers, text \in AnswerTexts :
          SubmitAnswerQuery(p, user, sid, qn, text)
    \/ \E p \in ps : SubmitAnswerCommit(p)
    \/ \E p \in ps, user \in Students, sid \in DOMAIN sessions :
          SubmitVivaQuery(p, user, sid)
    \/ \E p \in ps : SubmitVivaCommit(p)
    \/ \E p \in ps, user \in Students, sid \in DOMAIN sessions :
          ApiViolationQuery(p, user, sid)
    \/ \E p \in ps : ApiViolationCommit(p)
    \/ \E p \in ps, user \in Students, sid \in DOMAIN sessions :
          VivaViolationQuery(p, user, sid)
    \/ \E p \in ps : VivaViolationCommit(p)
    \/ \E p \in ps, user \in Students, sid \in DOMAIN sessions,
          body \in SaveMarksBodies :
          SaveMarksQuery(p, user, sid, body)
    \/ \E p \in ps : SaveMarksCommit(p)
    \/ \E p \in ps, user \in Students, sid \in DOMAIN sessions :
          AttemptVivaQuery(p, user, sid)
    \/ \E p \in ps : AttemptVivaCommit(p)
    \/ \E p \in ps, user \in Students, sid \in DOMAIN sessions :
          GetVivaProgress(p, user, sid)

\* the lifecycle with the handlers of concurrent requests interleaved
Next == NextOn(Procs)
Spec == Init /\ [][Next]_vars

\* the lifecycle with one request handled at a time
NextSeq == NextOn({1})
SeqSpec == Init /\ [][NextSeq]_vars

\* the step from the queries to the response of the request worker p handles
CommitStep(p) ==
    \/ ScheduleVivaCommit(p)
    \/ StartVivaCommit(p, LifecycleReplies, LifecycleChoices)
    \/ SecureExamCommit(p)
    \/ SubmitAnswerCommit(p)
    \/ SubmitVivaCommit(p)
    \/ ApiViolationCommit(p)
    \/ VivaViolationCommit(p)
    \/ SaveMarksCommit(p)
    \/ AttemptVivaCommit(p)

\* the lifecycle in which a handler that has run its queries runs on to its
\* response: the worker thread executes the view function to its return
FairSpec == Spec /\ \A p \in Procs : WF_vars(CommitStep(p))

-----------------------------------------------------------------------------
(* The option shuffle on every question keyed A-D *)

\* a question of a parsed Perplexity reply whose options dict lists the
\* letters in the given order
McqItem(letters, correct) ==
    [id |-> 0, question |-> "q", options_kind |-> "dict",
     options |-> [i \in 1..Len(letters) |-> <<letters[i], OptionText(letters[i])>>],
     correct_answer |-> correct]

\* every order a JSON object can list the keys A-D in
KeyOrders == {Shuffled(Letters, perm) : perm \in ShuffleOrders(Len(Letters))}

\* questions keyed A-D with every correct_answer in A-D, with one that is no
\* key ("a") and with none
ShuffleQuestions ==
    {McqItem(letters, correct) :
        letters \in KeyOrders, correct \in LetterSet \cup {"a", "missing"}}

\* parsed replies: one such question, alone or followed by a question with
\* three options
ShuffleReplies ==
    {<<q>> : q \in ShuffleQuestions}
        \cup {<<q, McqItem(<<"B", "A", "C">>, "C")>> : q \in ShuffleQuestions}

\* every order random.shuffle can draw for up to four options
AllShuffles == UNION {ShuffleOrders(n) : n \in 0..Len(Letters)}

\* a generate request that has received and parsed the backend's reply
InitShuffle ==
    /\ now = Timeline[2]
    /\ tz = 0
    /\ gemini = "none"
    /\ schedules = <<>>
    /\ sessions = <<>>
    /\ answers = <<>>
    /\ session_store = <<>>
    /\ sheets = "none"
    /\ roster = <<>>
    /\ \E questions \in ShuffleReplies :
          pend = [p \in Procs |->
                    IF p = 1
                    THEN [Req("generate_mcq", 1) EXCEPT !.exp = 1, !.aux =
                             [source |-> "perplexity", questions |-> questions]]
                    ELSE Idle]
    /\ nreq = 1
    /\ lastResp = Resp("none", 0)

NextShuffle == \E p \in Procs : GenerateMcqCommit(p, AllShuffles)

SpecShuffle == InitShuffle /\ [][NextShuffle]_vars

-----------------------------------------------------------------------------
(* Question generation under every kind of backend reply *)

\* a well-formed question of a parsed Perplexity reply
GoodMcqItem(correct) == McqItem(Letters, correct)

\* what the Perplexity call and json.loads can produce
PerplexityReplies ==
    {[kind |-> k, questions |-> <<>>] :
        k \in {"no_key", "request_failed", "invalid_json", "scalar"}}
        \cup {[kind |-> "dict", questions |-> qs] : qs \in
                {<<>>,
                 [i \in 1..NumQuestions |-> GoodMcqItem("B")],
                 [i \in 1..(NumQuestions - 1) |-> GoodMcqItem("A")],
                 [i \in 1..NumQuestions |->
                     IF i = 1 THEN [GoodMcqItem("A") EXCEPT !.options_kind = "missing"]
                     ELSE GoodMcqItem("A")],
                 [i \in 1..NumQuestions |->
                     IF i = 1 THEN McqItem(<<"A", "B", "C">>, "A")
                     ELSE GoodMcqItem("D")]}}

\* what the Java backend can return: nothing usable, or questions
BackendReplies == {<<>>, [i \in 1..NumQuestions |-> GoodMcqItem("C")]}

\* option orders of the generation specification: as listed and reversed
GenShuffles ==
    UNION {{[i \in 1..n |-> i], [i \in 1..n |-> n + 1 - i]} : n \in 0..Len(Letters)}

\* the student whose requests the generation specification follows
GenStudents == {1}

NextGen ==
    \/ Tick
    \/ \E exp \in Experiments, form \in LifecycleForms :
          ScheduleVivaQuery(1, exp, form)
    \/ ScheduleVivaCommit(1)
    \/ \E user \in GenStudents, exp \in Experiments :
          StartVivaQuery(1, user, exp)
    \/ StartVivaCommit(1, GenReplies, GenChoices)
    \/ \E user \in GenStudents, exp \in Experiments,
          backend \in BackendReplies, reply \in PerplexityReplies :
          GenerateMcqQuery(1, user, exp, backend, reply)
    \/ GenerateMcqCommit(1, GenShuffles)

SpecGen == Init /\ [][NextGen]_vars

-----------------------------------------------------------------------------
(* The schedule window at the instants around its bounds *)

\* minutes of IST_OFFSET = timedelta(hours=5, minutes=30)
IstOffsetMinutes == 5 * 60 + 30

WindowTimes ==
    {Time(8, 59, 0), Time(9, 0, 0), Time(9, 0, 30), Time(9, 59, 0),
     Time(10, 0, 0), Time(10, 0, 30), Time(10, 1, 0), Time(19, 0, 0)}

\* the day before the scheduled day, the day itself and the day after
WindowInstants ==
    {At(d, t) : d \in (ScheduleDay - 1)..(ScheduleDay + 1), t \in WindowTimes}

T0959 == HHMM("0", "9", "5", "9")

WindowForms ==
    {[scheduled_date |-> d, start_time |-> T0900, end_time |-> e] :
        d \in {ScheduleDay, ScheduleDay + 1}, e \in {T0959, T1000}}

InitWindow ==
    /\ \E t \in WindowInstants : InitAt(t)
    /\ tz \in {0, IstOffsetMinutes}
    /\ gemini = "configured"
    /\ sheets = "none"

NextWindow ==
    \/ TickTo(WindowInstants)
    \/ \E exp \in Experiments, form \in WindowForms : ScheduleVivaQuery(1, exp, form)
    \/ ScheduleVivaCommit(1)
    \/ \E user \in Students, exp \in Experiments : StartVivaQuery(1, user, exp)
    \/ StartVivaCommit(1, LifecycleReplies, LifecycleChoices)
    \/ GetExperiments(1)

SpecWindow == InitWindow /\ [][NextWindow]_vars

-----------------------------------------------------------------------------
(* The scorers on every question list and answer map *)

\* longest question list the scorers are applied to
MaxScoreLen == 3

\* correct labels of the questions and letters the student submits
ScoreLabels == {"A", "b"}
ScoreTexts == {"A", "a", "B", ""}

\* the keys of a question the scorers read: evaluate_answers and
\* evaluate_mcq_answers read question_number, calculate_score reads id
ScoreQuestion(i, correct) ==
    [id |-> i, question_number |-> i, correct_answer |-> correct]

ScoreQuestionLists ==
    UNION {{[i \in 1..n |-> ScoreQuestion(i, labels[i])] :
               labels \in [1..n -> ScoreLabels]} : n \in 0..MaxScoreLen}

\* answer maps: any subset of the question numbers answered, each with any
\* of the texts
ScoreAnswerMaps ==
    UNION {[answered -> ScoreTexts] : answered \in SUBSET (1..MaxScoreLen)}

\* a caller holds a question list and an answer map
InitScore ==
    /\ now = Timeline[2]
    /\ tz = 0
    /\ gemini = "configured"
    /\ schedules = <<>>
    /\ sessions = <<>>
    /\ answers = <<>>
    /\ session_store = <<>>
    /\ sheets = "none"
    /\ roster = <<>>
    /\ \E questions \in ScoreQuestionLists, submitted \in ScoreAnswerMaps :
          pend = [p \in Procs |->
                    IF p = 1
                    THEN [Req("score", 1) EXCEPT !.aux =
                             [questions |-> questions, answers |-> submitted]]
                    ELSE Idle]
    /\ nreq = 1
    /\ lastResp = Resp("none", 0)

\* the caller receives the result of a scorer on what it holds
Scored(p, scorer, result) ==
    /\ pend[p].op = "score"
    /\ lastResp' = [Done(pend[p], "Scored") EXCEPT
                       !.op = scorer, !.reason = pend[p].aux, !.value = result]
    /\ UNCHANGED <<sheets, roster, session_store, now, tz, gemini, schedules, sessions, answers,
                   pend, nreq>>

EvaluateAnswersCall(p) ==
    Scored(p, "evaluate_answers",
           EvaluateAnswersResult(pend[p].aux.questions, pend[p].aux.answers))

CalculateScoreCall(p) ==
    Scored(p, "calculate_score",
           CalculateScore(pend[p].aux.questions, pend[p].aux.answers))

EvaluateMcqAnswersCall(p) ==
    Scored(p, "evaluate_mcq_answers",
           EvaluateMcqAnswers(pend[p].aux.questions, pend[p].aux.answers))

NextScore ==
    \/ EvaluateAnswersCall(1)
    \/ CalculateScoreCall(1)
    \/ EvaluateMcqAnswersCall(1)

SpecScore == InitScore /\ [][NextScore]_vars

-----------------------------------------------------------------------------
(* The option shuffle on every options dict keyed A-D and every seed *)

\* texts of the options; two options of a question may carry the same text
ShuffleTexts == {"x", "y"}

\* the options dicts keyed A-D: every insertion order of the keys, every
\* assignment of texts
OptionDicts ==
    {[i \in 1..Len(Letters) |-> <<keys[i], texts[i]>>] :
        keys \in KeyOrders, texts \in [1..Len(Letters) -> ShuffleTexts]}

\* a caller holds an options dict and a seed; the seed stands as the order
\* random.shuffle draws under it
InitOptions ==
    /\ now = Timeline[2]
    /\ tz = 0
    /\ gemini = "none"
    /\ schedules = <<>>
    /\ sessions = <<>>
    /\ answers = <<>>
    /\ session_store = <<>>
    /\ sheets = "none"
    /\ roster = <<>>
    /\ \E options \in OptionDicts, seed \in ShuffleOrders(Len(Letters)) :
          pend = [p \in Procs |->
                    IF p = 1
                    THEN [Req("shuffle_options", 1) EXCEPT !.aux =
                             [options |-> options, seed |-> seed]]
                    ELSE Idle]
    /\ nreq = 1
    /\ lastResp = Resp("none", 0)

\* the caller receives shuffle_options(options, seed)
ShuffleOptionsCall(p) ==
    /\ pend[p].op = "shuffle_options"
    /\ lastResp' = [Done(pend[p], "Shuffled") EXCEPT
                       !.reason = pend[p].aux,
                       !.value = ShuffleOptions(pend[p].aux.options, pend[p].aux.seed)]
    /\ pend' = [pend EXCEPT ![p] = Idle]
    /\ UNCHANGED <<sheets, roster, session_store, now, tz, gemini, schedules,
                   sessions, answers, nreq>>

NextOptions == ShuffleOptionsCall(1)

SpecOptions == InitOptions /\ [][NextOptions]_vars

-----------------------------------------------------------------------------
(* The session question store: SESSION_STORE of viva_service.py *)

\* default of cleanup_expired_sessions(max_age_hours)
MaxAgeHours == 24

\* a datetime as the seconds since the midnight that begins day 0
AbsSecond(u) == u.date * 24 * 3600 + SecondOfDay(u.time)

\* get_session_questions(session_key)
GetSessionQuestions(store, session_key) ==
    IF session_key \in DOMAIN store THEN store[session_key].questions ELSE <<>>

\* clear_session(session_key)
ClearSession(store, session_key) ==
    [k \in DOMAIN store \ {session_key} |-> store[k]]

Mutant_CleanupExpiredSessions_AtCutoff(store, u, max_age_hours) ==
    [k \in {key \in DOMAIN store :
               AbsSecond(store[key].created_at)
                  > AbsSecond(u) - max_age_hours * 3600} |-> store[k]]

\* cleanup_expired_sessions(max_age_hours) at time u: the entries created
\* before the cutoff u - max_age_hours are popped
CleanupExpiredSessions(store, u, max_age_hours) ==
    LET cutoff == AbsSecond(u) - max_age_hours * 3600
        expired_keys == {key \in DOMAIN store :
                            AbsSecond(store[key].created_at) < cutoff}
    IN [k \in DOMAIN store \ expired_keys |-> store[k]]

\* session keys the store is used with
StoreKeys == {"1:1", "2:1"}

\* instants of the day before the schedule day and of the schedule day, one
\* of them max_age_hours after the first
StoreTimeline ==
    {At(ScheduleDay - 1, Time(9, 0, 0)), At(ScheduleDay, Time(8, 59, 0)),
     At(ScheduleDay, Time(9, 0, 0)), At(ScheduleDay, Time(10, 1, 0))}

InitStore ==
    /\ InitAt(At(ScheduleDay - 1, Time(9, 0, 0)))
    /\ tz = 0
    /\ gemini = "none"
    /\ sheets = "none"

\* a call on the store answers with what it was given (reason), the store it
\* found (seen) and what it returns (value)
StoreResp(o, key, given, result) ==
    [Resp(o, 0) EXCEPT !.reason = [session_key |-> key, given |-> given],
                       !.seen = session_store, !.value = result]

StoreSessionQuestionsCall(p, key, questions) ==
    /\ CanBegin(p)
    /\ session_store' = StoreSessionQuestions(session_store, key, questions, now)
    /\ Answer(StoreResp("store_session_questions", key, questions, <<>>))
    /\ UNCHANGED <<sheets, roster, now, tz, gemini, schedules, sessions, answers>>

GetSessionQuestionsCall(p, key) ==
    /\ CanBegin(p)
    /\ Answer(StoreResp("get_session_questions", key, <<>>,
                        GetSessionQuestions(session_store, key)))
    /\ UNCHANGED <<sheets, roster, session_store, now, tz, gemini, schedules,
                   sessions, answers>>

ClearSessionCall(p, key) ==
    /\ CanBegin(p)
    /\ session_store' = ClearSession(session_store, key)
    /\ Answer(StoreResp("clear_session", key, <<>>, <<>>))
    /\ UNCHANGED <<sheets, roster, now, tz, gemini, schedules, sessions, answers>>

CleanupExpiredSessionsCall(p) ==
    /\ CanBegin(p)
    /\ session_store' = CleanupExpiredSessions(session_store, now, MaxAgeHours)
    /\ Answer(StoreResp("cleanup_expired_sessions", "none", <<>>, <<>>))
    /\ UNCHANGED <<sheets, roster, now, tz, gemini, schedules, sessions, answers>>

NextStore ==
    \/ TickTo(StoreTimeline)
    \/ \E key \in StoreKeys, questions \in {<<>>, <<"q1">>, <<"q1", "q2">>} :
          StoreSessionQuestionsCall(1, key, questions)
    \/ \E key \in StoreKeys : GetSessionQuestionsCall(1, key)
    \/ \E key \in StoreKeys : ClearSessionCall(1, key)
    \/ CleanupExpiredSessionsCall(1)

SpecStore == InitStore /\ [][NextStore]_vars

-----------------------------------------------------------------------------
(* The student sheet: SheetsService.update_student_experiment_mark *)

\* calls of update_student_experiment_mark in one run
MaxSheetCalls == 2

\* str.strip() and str.upper() on a text, a sequence of characters
RECURSIVE StripLeft(_)
StripLeft(t) ==
    IF Len(t) > 0 /\ t[1] = " " THEN StripLeft(Tail(t)) ELSE t
RECURSIVE StripRight(_)
StripRight(t) ==
    IF Len(t) > 0 /\ t[Len(t)] = " "
    THEN StripRight(SubSeq(t, 1, Len(t) - 1)) ELSE t
Strip(t) == StripRight(StripLeft(t))
UpperText(t) == [i \in 1..Len(t) |-> Upper(t[i])]

\* chr(ord('C') + experiment_no - 1) for experiment_no in 1..10
ExperimentColumns == <<"C", "D", "E", "F", "G", "H", "I", "J", "K", "L">>

\* values().get(range='Sheet1!A:A'): one list per row up to the last row
\* with a value in column A, empty for an empty cell.  A sheet is the
\* function from <<column, row>> to the text of each non-empty cell
ColumnValues(grid) ==
    LET rows == {k[2] : k \in {c \in DOMAIN grid : c[1] = "A"}}
        last == IF rows = {} THEN 0
                ELSE CHOOSE r \in rows : \A q \in rows : q <= r
    IN [i \in 1..last |->
           IF <<"A", i>> \in DOMAIN grid THEN <<grid[<<"A", i>>]>> ELSE <<>>]

Mutant_UpdateStudentExperimentMark_NextColumn(grid, reg_no, experiment_no, marks, api) ==
    LET values  == ColumnValues(grid)
        matches == {idx \in DOMAIN values :
                       /\ Len(values[idx]) > 0
                       /\ UpperText(Strip(values[idx][1])) = UpperText(Strip(reg_no))}
    IN IF experiment_no < 1 \/ experiment_no > 10 \/ api # "ok" \/ matches = {}
       THEN [grid |-> grid, returned |-> FALSE]
       ELSE LET cell == <<ExperimentColumns[IF experiment_no < 10
                                            THEN experiment_no + 1 ELSE 10],
                          CHOOSE r \in matches : \A q \in matches : r <= q>>
            IN [grid |-> [k \in DOMAIN grid \cup {cell} |->
                             IF k = cell THEN StrInt(marks) ELSE grid[k]],
                returned |-> TRUE]

\* update_student_experiment_mark(reg_no, experiment_no, marks) on the sheet
\* grid; api tells which request of the Sheets API fails, if any.  The
\* result is the sheet afterwards and the value returned
UpdateStudentExperimentMark(grid, reg_no, experiment_no, marks, api) ==
    LET unchanged == [grid |-> grid, returned |-> FALSE] IN
    IF experiment_no < 1 \/ experiment_no > 10 THEN unchanged
    ELSE IF api = "get_fails" THEN unchanged
    ELSE LET values == ColumnValues(grid)
             reg_no_upper == UpperText(Strip(reg_no))
             matches == {idx \in DOMAIN values :
                            /\ Len(values[idx]) > 0
                            /\ UpperText(Strip(values[idx][1])) = reg_no_upper}
         IN IF Len(values) = 0 THEN unchanged
            ELSE IF matches = {} THEN unchanged
            ELSE IF api = "update_fails" THEN unchanged
            ELSE LET target_row == CHOOSE r \in matches : \A q \in matches : r <= q
                     cell == <<ExperimentColumns[experiment_no], target_row>>
                 IN [grid |-> [k \in DOMAIN grid \cup {cell} |->
                                  IF k = cell THEN StrInt(marks) ELSE grid[k]],
                     returned |-> TRUE]

\* sheets the service is used on: a header row and two students with marks
\* (a registration number in lower case and with a trailing blank), the same
\* with an empty row, a registration number on two rows, an empty sheet
SheetLayouts ==
    { (<<"A", 1>> :> <<"R", "e", "g">>) @@ (<<"A", 2>> :> <<"a", "1", " ">>)
         @@ (<<"A", 3>> :> <<"B", "2">>) @@ (<<"B", 2>> :> <<"n">>)
         @@ (<<"C", 2>> :> <<"5">>) @@ (<<"D", 3>> :> <<"7">>),
      (<<"A", 1>> :> <<"R", "e", "g">>) @@ (<<"A", 3>> :> <<"A", "1">>)
         @@ (<<"A", 4>> :> <<"B", "2">>) @@ (<<"C", 4>> :> <<"5">>),
      (<<"A", 1>> :> <<"A", "1">>) @@ (<<"A", 2>> :> <<"a", "1">>)
         @@ (<<"C", 2>> :> <<"5">>),
      <<>> }

InitSheet ==
    /\ now = Timeline[2]
    /\ tz = 0
    /\ gemini = "none"
    /\ schedules = <<>>
    /\ sessions = <<>>
    /\ answers = <<>>
    /\ session_store = <<>>
    /\ sheets = "configured"
    /\ roster \in SheetLayouts
    /\ pend = [p \in Procs |-> Idle]
    /\ nreq = 0
    /\ lastResp = Resp("none", 0)

\* a call of the method: the response records the arguments (reason), the
\* sheet before (seen) and the value returned (value)
UpdateStudentExperimentMarkCall(reg_no, experiment_no, marks, api) ==
    /\ nreq < MaxSheetCalls
    /\ LET result == UpdateStudentExperimentMark(roster, reg_no, experiment_no,
                                                 marks, api)
       IN /\ roster' = result.grid
          /\ Answer([Resp("update_student_experiment_mark", 0) EXCEPT
                        !.reason = [reg_no |-> reg_no,
                                    experiment_no |-> experiment_no,
                                    marks |-> marks, api |-> api],
                        !.seen = roster, !.value = result.returned])
    /\ UNCHANGED <<sheets, session_store, now, tz, gemini, schedules, sessions,
                   answers>>

\* the arguments of the calls: registration numbers of the sheet in several
\* spellings and one that is on no sheet, experiment numbers inside and
\* outside 1..10, marks, and which request of the API fails
NextSheet ==
    \E reg_no \in {<<"A", "1">>, <<" ", "a", "1">>, <<"b", "2">>, <<"C", "3">>},
       experiment_no \in {0, 1, 2, 10, 11},
       marks \in {0, 7},
       api \in {"ok", "get_fails", "update_fails"} :
          UpdateStudentExperimentMarkCall(reg_no, experiment_no, marks, api)

SpecSheet == InitSheet /\ [][NextSheet]_vars

-----------------------------------------------------------------------------
(* Properties of the lifecycle *)

FinalizeOps == {"submit_viva", "api_report_violation", "viva_report_violation"}

\* C1 (as claimed): a Finalize or FinalizeWithViolation call made by the
\* owner on a session that is already completed or violated returns the
\* AlreadyFinalized error.
C1_LaterCallsRejected ==
    (/\ lastResp.op \in FinalizeOps
     /\ lastResp.user = sessions[lastResp.sid].student_id
     /\ lastResp.seen \in Terminal)
        => lastResp.code = "AlreadyFinalized"

\* a Finalize (FinalizeWithViolation) request of worker p commits in this
\* step, after a FinalizeWithViolation (Finalize) request has made its session
\* terminal
CommitsSecond(p) ==
    /\ pend'[p].op = "idle"
    /\ \/ /\ pend[p].op = "submit_viva"
          /\ sessions[pend[p].sid].status = "violated"
       \/ /\ pend[p].op = "api_report_violation"
          /\ sessions[pend[p].sid].status = "completed"

\* C2 (as claimed): of a Finalize and a FinalizeWithViolation that run
\* concurrently on an in_progress session, the one that commits second is
\* rejected as AlreadyFinalized and leaves status and obtained_marks as the
\* first commit wrote them.
C2_FirstCommitWins ==
    [][\A p \in Procs :
          CommitsSecond(p)
             => /\ lastResp'.code = "AlreadyFinalized"
                /\ sessions'[pend[p].sid].status = sessions[pend[p].sid].status
                /\ sessions'[pend[p].sid].obtained_marks
                      = sessions[pend[p].sid].obtained_marks]_vars

\* C3 (as claimed): in every reachable state a violated session has
\* obtained_marks = 0.
C3_ViolatedHasZeroMarks ==
    \A sid \in DOMAIN sessions :
        sessions[sid].status = "violated" => sessions[sid].obtained_marks = 0

\* C4 (as claimed): once a session is completed or violated, no step changes
\* its status or its obtained_marks.
C4_TerminalIsFinal ==
    [][\A sid \in DOMAIN sessions :
          sessions[sid].status \in Terminal
             => /\ sessions'[sid].status = sessions[sid].status
                /\ sessions'[sid].obtained_marks = sessions[sid].obtained_marks]_vars

\* C5 (as claimed): there is at most one VivaSession row per (student,
\* experiment), whatever the interleaving of the StartAttempt requests.
C5_OneSessionPerPair ==
    \A user \in Students, exp \in Experiments :
        Cardinality(SessionsOf(user, exp)) <= 1

\* a submit-answer request of worker p commits in this step and is acknowledged
AnswerSaved(p) ==
    /\ pend[p].op = "submit_answer"
    /\ pend'[p].op = "idle"
    /\ lastResp'.code = "Saved"

\* C10: when the SubmitAnswer calls run one after the other, there is at most
\* one StudentAnswer row per (session, question number); every submission
\* that names a question and a text is acknowledged and leaves that row
\* holding the submitted text, adding a row only if the pair had none; no
\* other step adds a row or changes a stored answer_text.  The row therefore
\* holds the text of the latest submission.
C10_AnswerUpsert ==
    /\ [](\A sid \in DOMAIN sessions, qn \in QuestionNumbers :
             Cardinality(AnswerIdsAt(sid, qn)) <= 1)
    /\ [](lastResp.op = "submit_answer" => lastResp.code # "ServerError")
    /\ [][/\ \A p \in Procs : AnswerSaved(p) =>
                LET sid == pend[p].sid
                    qn  == pend[p].aux.question_number
                    at  == {i \in DOMAIN answers' :
                               /\ answers'[i].viva_session_id = sid
                               /\ answers'[i].question_number = qn}
                IN /\ Cardinality(at) = 1
                   /\ \A i \in at : answers'[i].answer_text = pend[p].aux.answer_text
                   /\ Len(answers') =
                         Len(answers) + (IF AnswerIdsAt(sid, qn) = {} THEN 1 ELSE 0)
          /\ \A i \in DOMAIN answers' :
                (\/ i \notin DOMAIN answers
                 \/ answers'[i].answer_text # answers[i].answer_text)
                   => \E p \in Procs :
                         /\ AnswerSaved(p)
                         /\ answers'[i].viva_session_id = pend[p].sid
                         /\ answers'[i].question_number = pend[p].aux.question_number
          /\ Len(answers') >= Len(answers)]_vars

\* a second submission for a question number has overwritten the row of the
\* first with a different text
C10_Witness ==
    /\ lastResp.op = "submit_answer"
    /\ lastResp.code = "Saved"
    /\ lastResp.reason = "updated"
    /\ \E i \in DOMAIN answers :
          /\ answers[i].viva_session_id = lastResp.sid
          /\ answers[i].question_number = lastResp.value
          /\ answers[i].answer_text = "b"
    /\ Len(answers) = 1

-----------------------------------------------------------------------------
(* Properties of the question generators *)

\* the letters of an options dict, and the texts it holds under a letter
KeysOf(options) == {options[i][1] : i \in DOMAIN options}
TextsAt(options, l) ==
    {options[i][2] : i \in {j \in DOMAIN options : options[j][1] = l}}

\* the question the generator returned at place idx, before its shuffle
OriginalOf(resp, idx) == resp.reason.questions[resp.reason.order[idx]]

\* C6: for every question of a Perplexity reply whose options are keyed A-D
\* and whose correct_answer is one of A-D, and for every order the shuffles
\* draw, the returned question holds under its new correct_answer exactly the
\* text the reply held under the original correct_answer.
C6_CorrectTextPreserved ==
    (/\ lastResp.op = "generate_mcq"
     /\ lastResp.code = "Success"
     /\ lastResp.reason.source = "perplexity")
        => \A idx \in DOMAIN lastResp.value :
              LET original == OriginalOf(lastResp, idx)
                  returned == lastResp.value[idx]
              IN (/\ KeysOf(original.options) = LetterSet
                  /\ original.correct_answer \in LetterSet)
                    => /\ returned.correct_answer \in LetterSet
                       /\ Cardinality(TextsAt(returned.options,
                                              returned.correct_answer)) = 1
                       /\ TextsAt(returned.options, returned.correct_answer)
                             = TextsAt(original.options, original.correct_answer)

\* a question keyed A-D was returned with its correct option under another
\* letter than the reply had it under
C6_Witness ==
    /\ lastResp.op = "generate_mcq"
    /\ lastResp.code = "Success"
    /\ lastResp.reason.source = "perplexity"
    /\ \E idx \in DOMAIN lastResp.value :
          /\ KeysOf(OriginalOf(lastResp, idx).options) = LetterSet
          /\ OriginalOf(lastResp, idx).correct_answer = "A"
          /\ lastResp.value[idx].correct_answer = "C"
          /\ lastResp.value[idx].options # OriginalOf(lastResp, idx).options

\* a question as start_viva stores it: text, the four options A-D, a correct
\* label in A-D
WellFormedQuestion(q) ==
    /\ q.question # "missing"
    /\ q.options_kind = "dict"
    /\ DOMAIN q.options = LetterSet
    /\ q.correct_answer \in LetterSet

\* a question as generate_mcq returns it: text, the four options A-D, a
\* correct label in A-D
WellFormedMcq(q) ==
    /\ q.question # "missing"
    /\ q.options_kind = "dict"
    /\ Len(q.options) = Len(Letters)
    /\ KeysOf(q.options) = LetterSet
    /\ q.correct_answer \in LetterSet

\* C7 (as claimed): whatever the backends do, every started session holds
\* exactly NumQuestions well-formed questions, and every generate request
\* returns exactly NumQuestions well-formed questions.
C7_GenerationNeverFails ==
    /\ \A sid \in DOMAIN sessions :
          /\ Len(sessions[sid].generated_questions) = NumQuestions
          /\ \A i \in DOMAIN sessions[sid].generated_questions :
                WellFormedQuestion(sessions[sid].generated_questions[i])
    /\ lastResp.op = "generate_mcq"
          => /\ lastResp.code = "Success"
             /\ Len(lastResp.value) = NumQuestions
             /\ \A i \in DOMAIN lastResp.value : WellFormedMcq(lastResp.value[i])

\* a session was started while no generation service is configured and
\* holds no question
C7_Witness ==
    /\ gemini = "none"
    /\ lastResp.op = "start_viva"
    /\ lastResp.code = "Started"
    /\ sessions[lastResp.sid].generated_questions = <<>>

-----------------------------------------------------------------------------
(* Properties of the schedule window *)

\* a response of start_viva that evaluated a schedule dated the UTC day of
\* the request
StartedToday ==
    /\ lastResp.op = "start_viva"
    /\ lastResp.sch # 0
    /\ schedules[lastResp.sch].scheduled_date = lastResp.at.date

\* second of the day of the request, of the start and of the end of the
\* window of the schedule the response evaluated
RequestSecond == SecondOfDay(lastResp.at.time)
StartSecond == SecondOfDay(Strptime(schedules[lastResp.sch].start_time))
EndSecond == SecondOfDay(Strptime(schedules[lastResp.sch].end_time))

Admitted == lastResp.code \in {"Started", "Resumed", "AlreadyCompleted"}

\* C8 (as claimed): for a schedule dated today, StartAttempt before start
\* fails with WindowClosed and reason 'early', from start up to end it
\* succeeds, after end it fails with WindowClosed and reason 'expired'.
C8_AsClaimed ==
    StartedToday =>
        /\ RequestSecond < StartSecond
              => lastResp.code = "WindowClosed" /\ lastResp.reason = "early"
        /\ (StartSecond <= RequestSecond /\ RequestSecond <= EndSecond) => Admitted
        /\ RequestSecond > EndSecond
              => lastResp.code = "WindowClosed" /\ lastResp.reason = "expired"

\* C8 (amended): for a schedule dated today (UTC), StartAttempt before start
\* or after end fails with WindowClosed, and from start up to end (both to the
\* second) it is admitted.  The reason of the failure does not tell before
\* from after: it is 'outside-hours' when the server's local date is the
\* schedule's date, 'expired' when the local date is already later, and
\* 'early' when it is still earlier.
C8_WindowGating ==
    StartedToday =>
        IF StartSecond <= RequestSecond /\ RequestSecond <= EndSecond
        THEN Admitted
        ELSE /\ lastResp.code = "WindowClosed"
             /\ LET today == LocalToday(lastResp.at, tz)
                    scheduled == schedules[lastResp.sch].scheduled_date
                IN lastResp.reason =
                      IF scheduled > today THEN "early"
                      ELSE IF scheduled < today THEN "expired"
                      ELSE "outside-hours"

\* StartAttempt at the last second of the window of today's schedule was
\* admitted
C8_Witness ==
    /\ StartedToday
    /\ RequestSecond = EndSecond
    /\ lastResp.code = "Started"

\* the schedule's date is the UTC date of instant u and u's time of day is
\* within [start, end], both bounds included, compared to the second
InsideWindow(sch, u) ==
    /\ sch.scheduled_date = u.date
    /\ SecondOfDay(Strptime(sch.start_time)) <= SecondOfDay(u.time)
    /\ SecondOfDay(u.time) <= SecondOfDay(Strptime(sch.end_time))

\* C9: is_active_now is true if and only if the schedule's date is the UTC
\* date of now and start <= time of day <= end, both bounds included; so a
\* schedule dated another day is closed at every time of day.  Observed at
\* both callers: start_viva answers WindowClosed exactly when the evaluator is
\* false, get_experiments lists an experiment exactly when it is true.
C9_ActiveIffInsideWindow ==
    /\ (lastResp.op = "start_viva" /\ lastResp.sch # 0)
          => (lastResp.code # "WindowClosed"
                 <=> InsideWindow(schedules[lastResp.sch], lastResp.at))
    /\ lastResp.op = "get_experiments"
          => \A e \in DOMAIN lastResp.reason :
                e \in lastResp.value
                   <=> InsideWindow(schedules[lastResp.reason[e]], lastResp.at)

\* StartAttempt was refused on a day that is not the schedule's, at a time of
\* day inside the schedule's hours
C9_Witness ==
    /\ lastResp.op = "start_viva"
    /\ lastResp.sch # 0
    /\ lastResp.code = "WindowClosed"
    /\ schedules[lastResp.sch].scheduled_date # lastResp.at.date
    /\ StartSecond <= RequestSecond
    /\ RequestSecond <= EndSecond

-----------------------------------------------------------------------------
(* Properties of StartAttempt *)

StartOps == {"start_viva", "secure_exam"}

\* a request was received in this step and answered at once
AnsweredAtOnce == nreq' = nreq + 1 /\ pend' = pend

\* the request of worker p commits in this step
Commits(p) == pend[p].op # "idle" /\ pend'[p].op = "idle"

\* the sessions of a pair and the total of the enrolled counts, read from
\* the tables
SessionRowsOf(rows, user, exp) ==
    {i \in DOMAIN rows : rows[i].student_id = user /\ rows[i].experiment_id = exp}
ScheduleRowsOf(rows, exp) == {i \in DOMAIN rows : rows[i].experiment_id = exp}

\* C13: a StartAttempt (start_viva, secure_exam) for an experiment without
\* schedule is answered NotScheduled, one outside the window of the schedule
\* it evaluates is answered WindowClosed; these answers leave the sessions
\* and the schedules (so every enrolled_count) as they were; and a session is
\* only ever inserted, and an enrolled_count only ever changed, by a
\* StartAttempt that found a schedule whose window was open when it evaluated
\* it.
C13_FailedStartCreatesNothing ==
    [][/\ (AnsweredAtOnce /\ lastResp'.op \in StartOps) =>
             /\ ScheduleRowsOf(schedules, lastResp'.exp) = {}
                   <=> lastResp'.code = "NotScheduled"
             /\ (/\ lastResp'.sch # 0
                 /\ ~InsideWindow(schedules[lastResp'.sch], now))
                   <=> lastResp'.code = "WindowClosed"
             /\ lastResp'.code \in {"NotScheduled", "WindowClosed"}
                   => sessions' = sessions /\ schedules' = schedules
       /\ (\/ Len(sessions') # Len(sessions)
           \/ \E si \in DOMAIN schedules :
                 schedules'[si].enrolled_count # schedules[si].enrolled_count)
             => \E p \in Procs :
                   /\ Commits(p)
                   /\ pend[p].op \in StartOps
                   /\ lastResp'.code = "Started"
                   /\ pend[p].sch \in ScheduleRowsOf(schedules, pend[p].exp)
                   /\ InsideWindow(schedules[pend[p].sch], pend[p].at)]_vars

\* a StartAttempt after the end of the window was answered WindowClosed while
\* another student holds a session: the asking student has none and the
\* enrolled count is that one session
C13_Witness ==
    /\ lastResp.op \in StartOps
    /\ lastResp.code = "WindowClosed"
    /\ SecondOfDay(lastResp.at.time)
          > SecondOfDay(Strptime(schedules[lastResp.sch].end_time))
    /\ SessionRowsOf(sessions, lastResp.user, lastResp.exp) = {}
    /\ Len(sessions) = 1
    /\ schedules[lastResp.sch].enrolled_count = 1

\* C14: a StartAttempt (start_viva, secure_exam) in an open window by a
\* student who already has a session for the experiment is answered at once
\* with that session: Resumed when it is in_progress, AlreadyCompleted when it
\* is completed or violated; the step changes no session, no schedule (so no
\* enrolled_count) and no answer.  Only a request that found no session goes
\* on to insert one, and none exists yet when it inserts.
C14_ExistingSessionReturned ==
    [][/\ (/\ AnsweredAtOnce
           /\ lastResp'.op \in StartOps
           /\ lastResp'.code \notin {"NotScheduled", "WindowClosed"})
             => /\ lastResp'.sid \in
                      SessionRowsOf(sessions, lastResp'.user, lastResp'.exp)
                /\ lastResp'.code =
                      IF sessions[lastResp'.sid].status = "in_progress"
                      THEN "Resumed" ELSE "AlreadyCompleted"
                /\ sessions' = sessions
                /\ schedules' = schedules
                /\ answers' = answers
       /\ \A p \in Procs :
             /\ (pend[p].op = "idle" /\ pend'[p].op \in StartOps)
                   => SessionRowsOf(sessions, pend'[p].user, pend'[p].exp) = {}
             /\ (Commits(p) /\ pend[p].op \in StartOps)
                   => /\ SessionRowsOf(sessions, pend[p].user, pend[p].exp) = {}
                      /\ Len(sessions') = Len(sessions) + 1]_vars

\* a StartAttempt was answered with the student's in_progress session, which
\* holds an answer already; it is the only session and the only enrolment
C14_Witness ==
    /\ lastResp.op \in StartOps
    /\ lastResp.code = "Resumed"
    /\ sessions[lastResp.sid].status = "in_progress"
    /\ AnswerIdsOf(lastResp.sid) # {}
    /\ Len(sessions) = 1
    /\ schedules[lastResp.sch].enrolled_count = 1

-----------------------------------------------------------------------------
(* Properties of the access to a session *)

\* the response answers a request of the student who owns the session it
\* names
ByOwner ==
    /\ lastResp.sid # 0
    /\ lastResp.user = sessions[lastResp.sid].student_id

\* C15 (as claimed): a SubmitAnswer that names a question and a text, made by
\* the owner on a session that is completed or violated, is answered with the
\* NotInProgress error.
C15_AnswerRejectedAfterFinal ==
    (/\ lastResp.op = "submit_answer"
     /\ ByOwner
     /\ lastResp.seen \in Terminal
     /\ lastResp.code # "MissingFields")
        => lastResp.code = "NotInProgress"

\* the operations on a session named by its id
SessionOps ==
    {"submit_answer", "submit_viva", "api_report_violation",
     "viva_report_violation", "save_marks", "get_viva_progress", "attempt_viva"}

\* C16 (as claimed): an operation on a session invoked by a student who does
\* not own it is answered at once with the authorization error, and the step
\* changes no session, no answer and no cell of the roster; no such request
\* goes on to a commit.
C16_OthersSessionRejected ==
    [][/\ (/\ AnsweredAtOnce
           /\ lastResp'.op \in SessionOps
           /\ lastResp'.user # sessions[lastResp'.sid].student_id)
             => /\ lastResp'.code = "Unauthorized"
                /\ sessions' = sessions
                /\ answers' = answers
                /\ roster' = roster
       /\ \A p \in Procs :
             (pend[p].op = "idle" /\ pend'[p].op \in SessionOps)
                => pend'[p].user = sessions[pend'[p].sid].student_id]_vars

-----------------------------------------------------------------------------
(* Properties of the roster synchronisation *)

\* the StudentAnswer rows of a session in the order of their ids
AnswerRowsOf(sid) ==
    [i \in 1..Cardinality(AnswerIdsOf(sid)) |-> answers[SortedIds(AnswerIdsOf(sid))[i]]]

\* the status and the marks a finalization of session sid by operation o
\* arrives at
FinalStatus(o) == IF o = "submit_viva" THEN "completed" ELSE "violated"
FinalMarks(o, sid) ==
    IF o = "submit_viva"
    THEN SubmitVivaMarks(gemini, sessions[sid].generated_questions, AnswerRowsOf(sid))
    ELSE 0

\* C17: when a Finalize (submit_viva) or a FinalizeWithViolation
\* (report_violation) commits and its roster write did not happen - the
\* service is not configured, the update returned False, or it raised - the
\* session is left in the terminal state of the operation with the marks that
\* were computed (0 for a violation), the roster is as it was, and the call
\* is answered with success carrying those marks.
C17_RosterFailureKeepsTransition ==
    [][\A p \in Procs :
          (/\ Commits(p)
           /\ pend[p].op \in FinalizeOps
           /\ lastResp'.sync.outcome # "written")
             => /\ lastResp'.code = "Success"
                /\ sessions'[pend[p].sid].status = FinalStatus(pend[p].op)
                /\ sessions'[pend[p].sid].obtained_marks
                      = FinalMarks(pend[p].op, pend[p].sid)
                /\ lastResp'.value = FinalMarks(pend[p].op, pend[p].sid)
                /\ roster' = roster]_vars

\* a Finalize whose roster write raised was answered with success; the
\* session is completed with the mark of its one correct answer and the
\* roster holds nothing
C17_Witness ==
    /\ lastResp.op = "submit_viva"
    /\ lastResp.code = "Success"
    /\ lastResp.sync.outcome = "raised"
    /\ sessions[lastResp.sid].status = "completed"
    /\ sessions[lastResp.sid].obtained_marks = 1
    /\ sessions[lastResp.sid].generated_questions # <<>>
    /\ roster = <<>>


AccessOps == {"attempt_viva", "submit_answer", "submit_viva", "get_viva_progress"}

\* C19 (as claimed): an access by the owner (a submission naming its
\* question and text) to a session it finds in_progress while the window of
\* the session's schedule is closed is answered by the forced finalization:
\* the session is violated with reason 'time window expired'.
C19_ClosedWindowForcesFinalize ==
    (/\ lastResp.op \in AccessOps
     /\ ByOwner
     /\ lastResp.seen = "in_progress"
     /\ lastResp.code # "MissingFields"
     /\ ~InsideWindow(schedules[lastResp.sch], lastResp.at))
        => /\ lastResp.code = "WindowExpired"
           /\ sessions[lastResp.sid].status = "violated"
           /\ sessions[lastResp.sid].violation_reason = "time-window-expired"

-----------------------------------------------------------------------------
(* Properties of the terminal transition *)

\* the operations that bring a session to a terminal state
TerminalOps == FinalizeOps \cup {"save_marks"}

-----------------------------------------------------------------------------
(* Properties of the schedules *)

\* C22: after any sequence of schedule-viva requests, two concurrent ones for
\* the same experiment included, every experiment has at most one
\* VivaSchedule row.
C22_OneSchedulePerExperiment ==
    \A e \in Experiments : Cardinality(SchedulesOf(e)) <= 1

\* the sessions created on schedule si
SessionsOn(si) == {sid \in DOMAIN sessions : sessions[sid].schedule_id = si}

\* C23: when the sessions created on a schedule belong to different
\* students, the schedule's enrolled_count (0 at creation) equals the number
\* of those sessions, however the starts that created them interleaved.
C23_EnrolledCountExact ==
    \A si \in DOMAIN schedules :
        (\A a, b \in SessionsOn(si) :
            sessions[a].student_id = sessions[b].student_id => a = b)
           => schedules[si].enrolled_count = Cardinality(SessionsOn(si))

-----------------------------------------------------------------------------
(* Properties of the stored question set *)

\* C24: a session that is in_progress has a non-empty stored question set,
\* and a submit_answer that was accepted was accepted for a session with a
\* non-empty stored question set.
C24_InProgressHasQuestions ==
    /\ \A sid \in DOMAIN sessions :
          sessions[sid].status = "in_progress"
             => sessions[sid].generated_questions # <<>>
    /\ (lastResp.op = "submit_answer" /\ lastResp.code = "Saved")
          => sessions[lastResp.sid].generated_questions # <<>>

-----------------------------------------------------------------------------
(* Properties of the violation record *)

\* C28: a session whose status is violated has violation_detected true, a
\* recorded violation_reason and violation_count >= 1, whichever path
\* finalized it; a session that is completed or in_progress has
\* violation_detected false.
C28_ViolationRecordConsistent ==
    \A sid \in DOMAIN sessions :
        IF sessions[sid].status = "violated"
        THEN /\ sessions[sid].violation_detected
             /\ sessions[sid].violation_reason # "null"
             /\ sessions[sid].violation_count >= 1
        ELSE ~sessions[sid].violation_detected

-----------------------------------------------------------------------------
(* Properties of the recorded marks *)

\* C29: every session has 0 <= obtained_marks <= total_marks, whatever was
\* submitted and whichever finalize path ran.
C29_MarksWithinTotal ==
    \A sid \in DOMAIN sessions :
        sessions[sid].obtained_marks \in 0..TotalMarks

\* C27: the mark a finalizing request of the session's owner writes to the
\* roster is written for the experiment_no of the session's own experiment,
\* not for the experiment's primary key or a number of the request body.
C27_RosterColumnIsExperimentNo ==
    (/\ lastResp.op \in TerminalOps
     /\ ByOwner
     /\ lastResp.sync.call # "none")
        => lastResp.sync.experiment_no
              = ExperimentNo(sessions[lastResp.sid].experiment_id)

\* the requests that finalize a session as completed
CompleteOps == {"submit_viva", "save_marks"}

\* C25: the obtained_marks a Finalize records is the scorer's result on the
\* question set stored with the session and the answers stored for it,
\* whatever the request body carries and whether or not the generation
\* service is configured.
C25_MarksAreScorerResult ==
    [][\A p \in Procs :
          (Commits(p) /\ pend[p].op \in CompleteOps)
             => sessions'[pend[p].sid].obtained_marks
                   = EvaluateAnswers(sessions[pend[p].sid].generated_questions,
                                     AnswersDict(AnswerRowsOf(pend[p].sid)))]_vars

-----------------------------------------------------------------------------
(* Properties of the option shuffle *)

\* the number of items of an options list that carry the text t
TextCount(options, t) ==
    Cardinality({i \in DOMAIN options : options[i][2] = t})

\* the text an options list holds under the letter l
TextUnder(options, l) ==
    options[CHOOSE i \in DOMAIN options : options[i][1] = l][2]

\* C30: for every options dict with the four keys A-D and every seed,
\* shuffle_options returns options keyed exactly A, B, C, D whose texts are
\* the input texts, each as often as in the input, and a letter mapping that
\* is a bijection from the old letters onto the new ones with
\* new_options[mapping[old]] the text that was under old.
C30_ShuffleIsRelabelling ==
    lastResp.op = "shuffle_options" =>
        LET old == lastResp.reason.options
            new == lastResp.value.new_options
            map == lastResp.value.letter_mapping
        IN /\ Len(new) = Len(Letters)
           /\ \A i \in DOMAIN new : new[i][1] = Letters[i]
           /\ \A t \in ShuffleTexts : TextCount(new, t) = TextCount(old, t)
           /\ DOMAIN map = LetterSet
           /\ {map[l] : l \in LetterSet} = LetterSet
           /\ \A l \in LetterSet : TextUnder(new, map[l]) = TextUnder(old, l)

\* a shuffle that moved every option of a dict with repeated texts
C30_Witness ==
    /\ lastResp.op = "shuffle_options"
    /\ \A l \in LetterSet : lastResp.value.letter_mapping[l] # l
    /\ TextCount(lastResp.reason.options, "x") = 3
    /\ lastResp.reason.options[1][1] = "C"

-----------------------------------------------------------------------------
(* Properties of the session question store *)

\* seconds between the creation of a store entry and the instant u
StoreAge(entry, u) == AbsSecond(u) - AbsSecond(entry.created_at)

\* C26: cleanup_expired_sessions removes exactly the entries older than the
\* retention window and leaves every other entry as it was; after an insert
\* the lookup of the key gives the inserted questions; after clear_session,
\* or after the sweep removed the key, the lookup gives the empty list; a
\* lookup returns the questions the store holds for the key.
C26_StoreSweepExact ==
    LET before == lastResp.seen
        key    == lastResp.reason.session_key
    IN
    /\ lastResp.op = "cleanup_expired_sessions" =>
          /\ DOMAIN session_store =
                {k \in DOMAIN before :
                    StoreAge(before[k], lastResp.at) <= MaxAgeHours * 3600}
          /\ \A k \in DOMAIN session_store : session_store[k] = before[k]
          /\ \A k \in DOMAIN before \ DOMAIN session_store :
                GetSessionQuestions(session_store, k) = <<>>
    /\ lastResp.op = "store_session_questions" =>
          /\ GetSessionQuestions(session_store, key) = lastResp.reason.given
          /\ \A k \in DOMAIN before \ {key} :
                k \in DOMAIN session_store /\ session_store[k] = before[k]
    /\ lastResp.op = "clear_session" =>
          /\ GetSessionQuestions(session_store, key) = <<>>
          /\ \A k \in DOMAIN before \ {key} :
                k \in DOMAIN session_store /\ session_store[k] = before[k]
    /\ lastResp.op = "get_session_questions" =>
          /\ session_store = before
          /\ lastResp.value = IF key \in DOMAIN before
                              THEN before[key].questions ELSE <<>>

\* a sweep that found two entries, removed the one older than the retention
\* window and kept the other
C26_Witness ==
    /\ lastResp.op = "cleanup_expired_sessions"
    /\ Cardinality(DOMAIN lastResp.seen) = 2
    /\ Cardinality(DOMAIN session_store) = 1
    /\ \E k \in DOMAIN session_store : session_store[k].questions # <<>>

-----------------------------------------------------------------------------
(* Properties of the student sheet *)

\* the rows of a sheet whose column A holds reg_no, blanks and case aside
RowsOf(grid, reg_no) ==
    {k[2] : k \in {c \in DOMAIN grid :
                      /\ c[1] = "A"
                      /\ UpperText(Strip(grid[c])) = UpperText(Strip(reg_no))}}

\* the cells in which two sheets differ
ChangedCells(before, after) ==
    {k \in DOMAIN before \cup DOMAIN after :
        \/ k \notin DOMAIN before
        \/ k \notin DOMAIN after
        \/ before[k] # after[k]}

\* C21: update_student_experiment_mark for a registration number of the
\* sheet and an experiment number in 1..10 (the API answering) returns true,
\* puts the mark into the cell at a row of that student and the column of
\* that experiment and changes no other cell, and the same call again leaves
\* the sheet as it is; for an experiment number outside 1..10 or a
\* registration number that is not on the sheet it returns false and the
\* sheet is unchanged, as it is whenever false is returned.
C21_MarkWriteTouchesOneCell ==
    lastResp.op = "update_student_experiment_mark" =>
        LET a      == lastResp.reason
            before == lastResp.seen
            rows   == RowsOf(before, a.reg_no)
            valid  == a.experiment_no \in 1..10
        IN
        /\ (valid /\ rows # {} /\ a.api = "ok") =>
              /\ lastResp.value = TRUE
              /\ \E r \in rows :
                    LET cell == <<ExperimentColumns[a.experiment_no], r>> IN
                    /\ cell \in DOMAIN roster
                    /\ roster[cell] = StrInt(a.marks)
                    /\ ChangedCells(before, roster) \subseteq {cell}
              /\ UpdateStudentExperimentMark(roster, a.reg_no, a.experiment_no,
                                             a.marks, "ok").grid = roster
        /\ (~valid \/ rows = {}) => lastResp.value = FALSE
        /\ lastResp.value = FALSE => roster = before

\* the mark 7 of experiment 1 was written over the 5 of the student whose
\* registration number the sheet spells 'a1 ' and the call ' a1'
C21_Witness ==
    /\ lastResp.op = "update_student_experiment_mark"
    /\ lastResp.value = TRUE
    /\ lastResp.reason.reg_no = <<" ", "a", "1">>
    /\ <<"C", 2>> \in DOMAIN lastResp.seen
    /\ lastResp.seen[<<"C", 2>>] = <<"5">>
    /\ lastResp.seen[<<"A", 2>>] = <<"a", "1", " ">>
    /\ roster[<<"C", 2>>] = <<"7">>

-----------------------------------------------------------------------------
(* Properties of the scorers *)

ScorerOps == {"evaluate_answers", "calculate_score", "evaluate_mcq_answers"}

\* two labels are the same letter, whatever their case
SameLetter(a, b) ==
    \/ a = b /\ a # ""
    \/ \E pair \in {<<"a", "A">>, <<"b", "B">>, <<"c", "C">>, <<"d", "D">>} :
          {a, b} = {pair[1], pair[2]}

\* question idx of the scored list has a submitted answer; that answer is
\* its correct label
ScoredAnswered(idx) == idx \in DOMAIN lastResp.reason.answers
ScoredCorrect(idx) ==
    /\ ScoredAnswered(idx)
    /\ SameLetter(lastResp.reason.answers[idx],
                  lastResp.reason.questions[idx].correct_answer)

\* C11 (as claimed): for every question list and every answer map, each
\* scorer returns obtained marks equal to the number of questions whose
\* submitted answer is the question's correct label, and total marks equal to
\* the number of questions.
C11_ScoreCountsCorrect ==
    lastResp.op \in ScorerOps =>
        /\ lastResp.value.obtained =
              Cardinality({idx \in DOMAIN lastResp.reason.questions :
                              ScoredCorrect(idx)})
        /\ lastResp.value.total = Len(lastResp.reason.questions)

\* C12 (as claimed): in every scorer a submitted letter that is the correct
\* label in another case scores 1, and a question with no submitted answer
\* scores 0.
C12_CaseInsensitiveMatch ==
    lastResp.op \in ScorerOps =>
        \A idx \in DOMAIN lastResp.reason.questions :
            /\ ScoredCorrect(idx) => lastResp.value.marks[idx] = 1
            /\ ~ScoredAnswered(idx) => lastResp.value.marks[idx] = 0

=============================================================================
